---- MODULE Spec2Model ----
(***************************************************************************)
(* B-tree cursors of the storage engine (src/src/btree_cursor.cc): the     *)
(* coupled / uncoupled / nil state machine, the traversal engine, the      *)
(* mutation gateway and the bulk uncoupling of a page's cursors.           *)
(*                                                                         *)
(* Every C function of btree_cursor.cc is an operator over a "world"       *)
(* record w (the tree's pages, the per-page cursor lists, the cursors and  *)
(* the heap of saved keys) that returns [st |-> status, w |-> new world].  *)
(* An action applies one public function to the current state.  The       *)
(* collaborators whose code is not part of the excerpt (page manager,      *)
(* B-tree find/insert/erase, blob store) are modelled from their contract. *)
(***************************************************************************)
EXTENDS Integers, Sequences, FiniteSets, TLC

VARIABLES root, pages, list, cur, keybuf, plugins, handles, threads

vars == <<root, pages, list, cur, keybuf, plugins, handles, threads>>

(***************************************************************************)
(* Bounds of the model.                                                    *)
(***************************************************************************)
\* keys are 1..MaxKey
MaxKey == 3
\* a leaf holds at most NodeCap keys
NodeCap == 2
\* a key holds at most MaxDups duplicates
MaxDups == 2

Keys == 1..MaxKey

\* the cursor objects
Cursors == {1, 2}
\* the leaves, in key order, and one internal root above them
NumLeaves == (MaxKey + NodeCap - 1) \div NodeCap
InternalId == NumLeaves + 1
PageIds == 1..InternalId
\* one saved key per cursor
KeyPtrs == 1..Cardinality(Cursors)

(***************************************************************************)
(* Status codes (spec section 6); the code tests a status with "if (st)".  *)
(***************************************************************************)
HAM_SUCCESS == "SUCCESS"
HAM_KEY_NOT_FOUND == "KEY_NOT_FOUND"
HAM_CURSOR_IS_NIL == "CURSOR_IS_NIL"
HAM_OUT_OF_MEMORY == "OUT_OF_MEMORY"
HAM_NOT_INITIALIZED == "NOT_INITIALIZED"
HAM_DUPLICATE_KEY == "DUPLICATE_KEY"
\* any status of a page or blob routine, propagated unchanged
HAM_IO_ERROR == "IO_ERROR"

(***************************************************************************)
(* Flags.                                                                  *)
(***************************************************************************)
BTREE_CURSOR_FLAG_COUPLED == "COUPLED"
BTREE_CURSOR_FLAG_UNCOUPLED == "UNCOUPLED"
BTREE_CURSOR_UNCOUPLE_NO_REMOVE == "NO_REMOVE"
HAM_CURSOR_FIRST == "FIRST"
HAM_CURSOR_LAST == "LAST"
HAM_CURSOR_NEXT == "NEXT"
HAM_CURSOR_PREVIOUS == "PREVIOUS"
HAM_SKIP_DUPLICATES == "SKIP_DUPLICATES"
HAM_ONLY_DUPLICATES == "ONLY_DUPLICATES"
HAM_DUPLICATE == "DUPLICATE"

(***************************************************************************)
(* The world record and its accessors.                                     *)
(***************************************************************************)
World == [root |-> root, pages |-> pages, list |-> list, cur |-> cur,
          keybuf |-> keybuf]

Ret(st, w) == [st |-> st, w |-> w]

\* a page slot that holds no page
NoPage == [used |-> FALSE, leaf |-> TRUE, keys |-> <<>>, left |-> 0,
           right |-> 0, ptr_left |-> 0, refcount |-> 0, dirty |-> FALSE]

\* a leaf key entry: the key and its duplicate table (record ids, in order)
Entry(k, ds) == [key |-> k, dups |-> ds, ptr |-> 0]

\* an internal key entry: the separator key and the child page it points to
Separator(k, child) == [key |-> k, dups |-> <<>>, ptr |-> child]

page_get_btree_node(w, p) == w.pages[p]

btree_node_get_count(node) == Len(node.keys)

btree_node_is_leaf(node) == node.leaf

btree_node_get_ptr_left(node) == node.ptr_left

btree_node_get_right(node) == node.right

btree_node_get_left(node) == node.left

\* slots are 0-based in the code, sequences 1-based here; a slot past the
\* node's count reads the unused (zeroed) part of the page
btree_node_get_key(node, slot) ==
    IF slot >= 0 /\ slot < Len(node.keys) THEN node.keys[slot + 1]
    ELSE [key |-> 0, dups |-> <<>>, ptr |-> 0]

key_get_ptr(entry) == entry.ptr

\* the has-duplicates flag of a key entry: set once a second duplicate exists
KEY_HAS_DUPLICATES(entry) == Len(entry.dups) > 1

btree_get_rootpage(w) == w.root

btree_cursor_get_flags(w, c) == w.cur[c].flags

btree_cursor_is_coupled(w, c) == BTREE_CURSOR_FLAG_COUPLED \in w.cur[c].flags

btree_cursor_is_uncoupled(w, c) == BTREE_CURSOR_FLAG_UNCOUPLED \in w.cur[c].flags

btree_cursor_get_coupled_page(w, c) == w.cur[c].page

btree_cursor_get_coupled_index(w, c) == w.cur[c].idx

btree_cursor_get_dupe_id(w, c) == w.cur[c].dupe_id

btree_cursor_get_uncoupled_key(w, c) == w.cur[c].ukey

btree_cursor_set_flags(w, c, f) == [w EXCEPT !.cur[c].flags = f]

\* set_flags(c, get_flags(c) & ~f) and set_flags(c, get_flags(c) | f)
btree_cursor_clear_flag(w, c, f) ==
    btree_cursor_set_flags(w, c, btree_cursor_get_flags(w, c) \ {f})

btree_cursor_add_flag(w, c, f) ==
    btree_cursor_set_flags(w, c, btree_cursor_get_flags(w, c) \cup {f})

btree_cursor_set_coupled_page(w, c, p) == [w EXCEPT !.cur[c].page = p]

btree_cursor_set_coupled_index(w, c, i) == [w EXCEPT !.cur[c].idx = i]

btree_cursor_set_dupe_id(w, c, d) == [w EXCEPT !.cur[c].dupe_id = d]

btree_cursor_set_uncoupled_key(w, c, p) == [w EXCEPT !.cur[c].ukey = p]

\* memset(btree_cursor_get_dupe_cache(c), 0, sizeof(dupe_entry_t))
clear_dupe_cache(w, c) == [w EXCEPT !.cur[c].cache = 0]

(***************************************************************************)
(* Page manager: the per-page cursor list (head first).                    *)
(***************************************************************************)
RECURSIVE SeqWithout(_, _)
SeqWithout(s, x) ==
    IF s = <<>> THEN <<>>
    ELSE IF Head(s) = x THEN SeqWithout(Tail(s), x)
    ELSE <<Head(s)>> \o SeqWithout(Tail(s), x)

InSeq(s, x) == \E i \in 1..Len(s) : s[i] = x

\* links the cursor in as the new head of the page's list
page_add_cursor(w, p, c) ==
    IF p \in PageIds
    THEN [w EXCEPT !.list[p] = <<c>> \o SeqWithout(@, c)]
    ELSE w

\* unlinks the cursor; a cursor that is not linked in is left alone
page_remove_cursor(w, p, c) ==
    IF p \in PageIds
    THEN [w EXCEPT !.list[p] = SeqWithout(@, c)]
    ELSE w

page_get_cursors(w, p) == w.list[p]

page_set_cursors(w, p, l) == [w EXCEPT !.list[p] = l]

\* the dirty flag of a page: set when the page's content changes, cleared
\* when the page is written out
page_is_dirty(w, p) == w.pages[p].dirty

page_set_dirty(w, p) == [w EXCEPT !.pages[p].dirty = TRUE]

\* every page is written out
db_flush_all(w) ==
    [w EXCEPT !.pages = [p \in PageIds |-> [w.pages[p] EXCEPT !.dirty = FALSE]]]

\* the reference counter of a page: the buffer pool evicts no page whose
\* counter is above 0
page_get_refcount(w, p) == w.pages[p].refcount

(***************************************************************************)
(* Allocator: the heap of saved (uncoupled) keys.  A cell holds the key    *)
(* bytes, 0 when the cell is free.                                         *)
(***************************************************************************)
FreePtrs(w) == {p \in KeyPtrs : w.keybuf[p] = 0}

\* the cell the allocator hands out (0: none left).  Any free cell would
\* do; the one numbered like the requesting cursor is taken when it is free,
\* the lowest free one otherwise.
allocator_calloc(w, c) ==
    IF c \in FreePtrs(w) THEN c
    ELSE IF FreePtrs(w) = {} THEN 0
    ELSE CHOOSE p \in FreePtrs(w) : \A q \in FreePtrs(w) : p <= q

allocator_free(w, p) ==
    IF p \in KeyPtrs THEN [w EXCEPT !.keybuf[p] = 0] ELSE w

\* the key bytes behind a saved-key pointer
KeyAt(w, p) == IF p \in KeyPtrs THEN w.keybuf[p] ELSE 0

(***************************************************************************)
(* Blob store: the duplicate table of a key entry.                         *)
(***************************************************************************)
\* blob_duplicate_get: the entry at position i, KEY_NOT_FOUND past the end
blob_duplicate_get(w, c, entry, i, x) ==
    IF x = "dupget" THEN Ret(HAM_IO_ERROR, w)
    ELSE IF i >= Len(entry.dups) \/ i < 0 THEN Ret(HAM_KEY_NOT_FOUND, w)
    ELSE Ret(HAM_SUCCESS, [w EXCEPT !.cur[c].cache = entry.dups[i + 1]])

\* blob_duplicate_get_count: the number of duplicates; the cache receives
\* the last entry of the table
blob_duplicate_get_count(w, c, entry, x) ==
    IF x = "dupcount" THEN [st |-> HAM_IO_ERROR, w |-> w, count |-> 0]
    ELSE [st |-> HAM_SUCCESS,
          w |-> [w EXCEPT !.cur[c].cache = entry.dups[Len(entry.dups)]],
          count |-> Len(entry.dups)]

(***************************************************************************)
(* btree_cursor_set_to_nil                                                 *)
(***************************************************************************)
set_to_nil_keeping_dupe_id(w, c) ==
    IF btree_cursor_is_uncoupled(w, c)
    THEN btree_cursor_set_flags(
           btree_cursor_set_uncoupled_key(
             allocator_free(w, btree_cursor_get_uncoupled_key(w, c)), c, 0),
           c, btree_cursor_get_flags(w, c) \ {BTREE_CURSOR_FLAG_UNCOUPLED})
    ELSE IF btree_cursor_is_coupled(w, c)
    THEN btree_cursor_set_flags(
           page_remove_cursor(w, btree_cursor_get_coupled_page(w, c), c),
           c, btree_cursor_get_flags(w, c) \ {BTREE_CURSOR_FLAG_COUPLED})
    ELSE w

set_to_nil_no_list_removal(w, c) ==
    LET w1 == IF btree_cursor_is_uncoupled(w, c)
              THEN btree_cursor_set_flags(
                     btree_cursor_set_uncoupled_key(
                       allocator_free(w, btree_cursor_get_uncoupled_key(w, c)),
                       c, 0),
                     c, btree_cursor_get_flags(w, c) \ {BTREE_CURSOR_FLAG_UNCOUPLED})
              ELSE IF btree_cursor_is_coupled(w, c)
              THEN btree_cursor_set_flags(w, c,
                     btree_cursor_get_flags(w, c) \ {BTREE_CURSOR_FLAG_COUPLED})
              ELSE w
    IN clear_dupe_cache(btree_cursor_set_dupe_id(w1, c, 0), c)

btree_cursor_set_to_nil(w, c) ==
    LET w1 == IF btree_cursor_is_uncoupled(w, c)
              THEN btree_cursor_set_flags(
                     btree_cursor_set_uncoupled_key(
                       allocator_free(w, btree_cursor_get_uncoupled_key(w, c)),
                       c, 0),
                     c, btree_cursor_get_flags(w, c) \ {BTREE_CURSOR_FLAG_UNCOUPLED})
              ELSE IF btree_cursor_is_coupled(w, c)
              THEN btree_cursor_set_flags(
                     page_remove_cursor(w, btree_cursor_get_coupled_page(w, c), c),
                     c, btree_cursor_get_flags(w, c) \ {BTREE_CURSOR_FLAG_COUPLED})
              ELSE w
    IN clear_dupe_cache(btree_cursor_set_dupe_id(w1, c, 0), c)

(***************************************************************************)
(* B-tree lookup (btree_find_cursor): on success the cursor is coupled to  *)
(* the slot of the key with duplicate index 0; on failure it is untouched. *)
(***************************************************************************)
LeafPages(w) == {p \in PageIds : w.pages[p].used /\ w.pages[p].leaf}

\* the places <<page, slot>> where key k is stored (at most one)
PlacesOf(w, k) ==
    {pl \in LeafPages(w) \X (0..(NodeCap - 1)) :
        /\ pl[2] < Len(w.pages[pl[1]].keys)
        /\ w.pages[pl[1]].keys[pl[2] + 1].key = k}

\* couples the cursor to <<page, slot>> with duplicate index d
CoupleAt(w, c, p, slot, d) ==
    btree_cursor_set_dupe_id(
      btree_cursor_set_flags(
        btree_cursor_set_coupled_index(
          btree_cursor_set_coupled_page(page_add_cursor(w, p, c), c, p),
          c, slot),
        c, btree_cursor_get_flags(w, c) \cup {BTREE_CURSOR_FLAG_COUPLED}),
      c, d)

btree_find_cursor(w, c, k, x) ==
    IF x = "find" THEN Ret(HAM_IO_ERROR, w)
    ELSE IF PlacesOf(w, k) = {} THEN Ret(HAM_KEY_NOT_FOUND, w)
    ELSE LET pl == CHOOSE q \in PlacesOf(w, k) : TRUE
         IN Ret(HAM_SUCCESS, CoupleAt(w, c, pl[1], pl[2], 0))

(***************************************************************************)
(* btree_cursor_find                                                       *)
(***************************************************************************)
btree_cursor_find_without_set_to_nil(w, c, k, x) ==
    IF x = "no_backend" THEN Ret(HAM_NOT_INITIALIZED, w)
    ELSE btree_find_cursor(w, c, k, x)

btree_cursor_find(w, c, k, x) ==
    IF x = "no_backend" THEN Ret(HAM_NOT_INITIALIZED, w)
    ELSE btree_find_cursor(btree_cursor_set_to_nil(w, c), c, k, x)

(***************************************************************************)
(* btree_cursor_couple: couples an uncoupled cursor by a find on its saved *)
(* key; the duplicate index is saved over the find and restored.           *)
(***************************************************************************)
couple_without_dupe_restore(w, c, x) ==
    IF x = "copy_key" THEN Ret(HAM_OUT_OF_MEMORY, w)
    ELSE btree_cursor_find(w, c, KeyAt(w, btree_cursor_get_uncoupled_key(w, c)), x)

btree_cursor_couple(w, c, x) ==
    IF x = "copy_key" THEN Ret(HAM_OUT_OF_MEMORY, w)
    ELSE LET key == KeyAt(w, btree_cursor_get_uncoupled_key(w, c))
             dupe_id == btree_cursor_get_dupe_id(w, c)
             r == btree_cursor_find(w, c, key, x)
         IN Ret(r.st, btree_cursor_set_dupe_id(r.w, c, dupe_id))

(***************************************************************************)
(* db_fetch_page: fails when the fault x names it.                         *)
(***************************************************************************)
db_fetch_page_fails(x) == x = "fetch"

(***************************************************************************)
(* __move_first                                                            *)
(***************************************************************************)
\* the descent loop: the leaf reached by following ptr_left, 0 when a node
\* with count 0 is met
RECURSIVE DescendFirst(_, _)
DescendFirst(w, p) ==
    LET node == page_get_btree_node(w, p)
    IN IF btree_node_get_count(node) = 0 THEN 0
       ELSE IF btree_node_is_leaf(node) THEN p
       ELSE DescendFirst(w, btree_node_get_ptr_left(node))

move_first_keeping_position(w, c, flags, x) ==
    IF btree_get_rootpage(w) = 0 THEN Ret(HAM_KEY_NOT_FOUND, w)
    ELSE IF db_fetch_page_fails(x) THEN Ret(HAM_IO_ERROR, w)
    ELSE IF DescendFirst(w, btree_get_rootpage(w)) = 0
    THEN Ret(HAM_KEY_NOT_FOUND, w)
    ELSE Ret(HAM_SUCCESS,
             CoupleAt(btree_cursor_set_to_nil(w, c), c,
                      DescendFirst(w, btree_get_rootpage(w)), 0, 0))

move_first(w, c, flags, x) ==
    LET w1 == btree_cursor_set_to_nil(w, c)
    IN IF btree_get_rootpage(w1) = 0 THEN Ret(HAM_KEY_NOT_FOUND, w1)
       ELSE IF db_fetch_page_fails(x) THEN Ret(HAM_IO_ERROR, w1)
       ELSE LET leaf == DescendFirst(w1, btree_get_rootpage(w1))
            IN IF leaf = 0 THEN Ret(HAM_KEY_NOT_FOUND, w1)
               ELSE Ret(HAM_SUCCESS, CoupleAt(w1, c, leaf, 0, 0))

(***************************************************************************)
(* __move_next                                                             *)
(***************************************************************************)
\* the part of __move_next after the cursor is known to be coupled, from
\* the next slot on (lines 163-199)
next_key_unchecked_index(w, c, flags, x) ==
    LET page == btree_cursor_get_coupled_page(w, c)
        node == page_get_btree_node(w, page)
    IN IF HAM_ONLY_DUPLICATES \in flags THEN Ret(HAM_KEY_NOT_FOUND, w)
       ELSE IF btree_node_get_right(node) = 0
       THEN Ret(HAM_SUCCESS,
                btree_cursor_set_dupe_id(
                  btree_cursor_set_coupled_index(w, c,
                    btree_cursor_get_coupled_index(w, c) + 1), c, 0))
       ELSE LET w1 == btree_cursor_set_flags(
                        page_remove_cursor(w, page, c), c,
                        btree_cursor_get_flags(w, c) \ {BTREE_CURSOR_FLAG_COUPLED})
            IN IF db_fetch_page_fails(x) THEN Ret(HAM_IO_ERROR, w1)
               ELSE Ret(HAM_SUCCESS,
                        CoupleAt(w1, c, btree_node_get_right(node), 0, 0))

next_key_ignoring_only_duplicates(w, c, flags, x) ==
    LET page == btree_cursor_get_coupled_page(w, c)
        node == page_get_btree_node(w, page)
    IN IF btree_cursor_get_coupled_index(w, c) + 1 < btree_node_get_count(node)
       THEN Ret(HAM_SUCCESS,
                btree_cursor_set_dupe_id(
                  btree_cursor_set_coupled_index(w, c,
                    btree_cursor_get_coupled_index(w, c) + 1), c, 0))
       ELSE IF btree_node_get_right(node) = 0 THEN Ret(HAM_KEY_NOT_FOUND, w)
       ELSE IF db_fetch_page_fails(x)
       THEN Ret(HAM_IO_ERROR,
                btree_cursor_clear_flag(page_remove_cursor(w, page, c), c,
                                        BTREE_CURSOR_FLAG_COUPLED))
       ELSE Ret(HAM_SUCCESS,
                CoupleAt(btree_cursor_clear_flag(page_remove_cursor(w, page, c),
                                                 c, BTREE_CURSOR_FLAG_COUPLED),
                         c, btree_node_get_right(node), 0, 0))

next_key(w, c, flags, x) ==
    LET page == btree_cursor_get_coupled_page(w, c)
        node == page_get_btree_node(w, page)
    IN IF HAM_ONLY_DUPLICATES \in flags THEN Ret(HAM_KEY_NOT_FOUND, w)
       ELSE IF btree_cursor_get_coupled_index(w, c) + 1
                 < btree_node_get_count(node)
       THEN Ret(HAM_SUCCESS,
                btree_cursor_set_dupe_id(
                  btree_cursor_set_coupled_index(w, c,
                    btree_cursor_get_coupled_index(w, c) + 1), c, 0))
       ELSE IF btree_node_get_right(node) = 0 THEN Ret(HAM_KEY_NOT_FOUND, w)
       ELSE LET w1 == btree_cursor_set_flags(
                        page_remove_cursor(w, page, c), c,
                        btree_cursor_get_flags(w, c) \ {BTREE_CURSOR_FLAG_COUPLED})
            IN IF db_fetch_page_fails(x) THEN Ret(HAM_IO_ERROR, w1)
               ELSE Ret(HAM_SUCCESS,
                        CoupleAt(w1, c, btree_node_get_right(node), 0, 0))

next_coupled_keeping_increment(w, c, flags, x) ==
    LET page == btree_cursor_get_coupled_page(w, c)
        node == page_get_btree_node(w, page)
        entry == btree_node_get_key(node, btree_cursor_get_coupled_index(w, c))
        d == btree_cursor_get_dupe_id(w, c)
    IN IF KEY_HAS_DUPLICATES(entry) /\ HAM_SKIP_DUPLICATES \notin flags
       THEN LET r == blob_duplicate_get(btree_cursor_set_dupe_id(w, c, d + 1),
                                        c, entry, d + 1, x)
            IN IF r.st # HAM_SUCCESS
               THEN IF r.st # HAM_KEY_NOT_FOUND THEN Ret(r.st, r.w)
                    ELSE next_key(r.w, c, flags, x)
               ELSE Ret(HAM_SUCCESS, r.w)
       ELSE next_key(w, c, flags, x)

\* lines 139-199: the cursor is coupled
next_coupled(w, c, flags, x) ==
    LET page == btree_cursor_get_coupled_page(w, c)
        node == page_get_btree_node(w, page)
        entry == btree_node_get_key(node, btree_cursor_get_coupled_index(w, c))
        d == btree_cursor_get_dupe_id(w, c)
    IN IF KEY_HAS_DUPLICATES(entry) /\ HAM_SKIP_DUPLICATES \notin flags
       THEN LET r == blob_duplicate_get(btree_cursor_set_dupe_id(w, c, d + 1),
                                        c, entry, d + 1, x)
            IN IF r.st # HAM_SUCCESS
               THEN LET w2 == btree_cursor_set_dupe_id(r.w, c, d)
                    IN IF r.st # HAM_KEY_NOT_FOUND THEN Ret(r.st, w2)
                       ELSE next_key(w2, c, flags, x)
               ELSE Ret(HAM_SUCCESS, r.w)
       ELSE next_key(w, c, flags, x)

move_next_stopping_after_couple(w, c, flags, x) ==
    IF btree_cursor_is_uncoupled(w, c) THEN btree_cursor_couple(w, c, x)
    ELSE IF ~btree_cursor_is_coupled(w, c) THEN Ret(HAM_CURSOR_IS_NIL, w)
    ELSE next_coupled(w, c, flags, x)

move_next(w, c, flags, x) ==
    IF btree_cursor_is_uncoupled(w, c)
    THEN LET r == btree_cursor_couple(w, c, x)
         IN IF r.st # HAM_SUCCESS THEN r ELSE next_coupled(r.w, c, flags, x)
    ELSE IF ~btree_cursor_is_coupled(w, c) THEN Ret(HAM_CURSOR_IS_NIL, w)
    ELSE next_coupled(w, c, flags, x)

(***************************************************************************)
(* __move_previous                                                         *)
(***************************************************************************)
stay_at_first_duplicate(w, c, entry, flags, x) ==
    IF KEY_HAS_DUPLICATES(entry) /\ HAM_SKIP_DUPLICATES \notin flags
    THEN LET r == blob_duplicate_get_count(w, c, entry, x)
         IN IF r.st # HAM_SUCCESS THEN Ret(r.st, r.w)
            ELSE Ret(HAM_SUCCESS, r.w)
    ELSE Ret(HAM_SUCCESS, w)

to_last_duplicate_off_by_one(w, c, entry, flags, x) ==
    IF KEY_HAS_DUPLICATES(entry) /\ HAM_SKIP_DUPLICATES \notin flags
    THEN LET r == blob_duplicate_get_count(w, c, entry, x)
         IN IF r.st # HAM_SUCCESS THEN Ret(r.st, r.w)
            ELSE Ret(HAM_SUCCESS, btree_cursor_set_dupe_id(r.w, c, r.count))
    ELSE Ret(HAM_SUCCESS, w)

\* lines 284-296: on a key with duplicates, jump to its last duplicate
to_last_duplicate(w, c, entry, flags, x) ==
    IF KEY_HAS_DUPLICATES(entry) /\ HAM_SKIP_DUPLICATES \notin flags
    THEN LET r == blob_duplicate_get_count(w, c, entry, x)
         IN IF r.st # HAM_SUCCESS THEN Ret(r.st, r.w)
            ELSE Ret(HAM_SUCCESS, btree_cursor_set_dupe_id(r.w, c, r.count - 1))
    ELSE Ret(HAM_SUCCESS, w)

\* lines 246-296: the previous key
previous_key(w, c, flags, x) ==
    LET page == btree_cursor_get_coupled_page(w, c)
        node == page_get_btree_node(w, page)
    IN IF HAM_ONLY_DUPLICATES \in flags THEN Ret(HAM_KEY_NOT_FOUND, w)
       ELSE IF btree_cursor_get_coupled_index(w, c) # 0
       THEN LET w1 == btree_cursor_set_coupled_index(w, c,
                        btree_cursor_get_coupled_index(w, c) - 1)
                entry == btree_node_get_key(node,
                           btree_cursor_get_coupled_index(w1, c))
            IN to_last_duplicate(btree_cursor_set_dupe_id(w1, c, 0), c,
                                 entry, flags, x)
       ELSE IF btree_node_get_left(node) = 0 THEN Ret(HAM_KEY_NOT_FOUND, w)
       ELSE LET w1 == btree_cursor_set_flags(
                        page_remove_cursor(w, page, c), c,
                        btree_cursor_get_flags(w, c) \ {BTREE_CURSOR_FLAG_COUPLED})
            IN IF db_fetch_page_fails(x) THEN Ret(HAM_IO_ERROR, w1)
               ELSE LET lp == btree_node_get_left(node)
                        lnode == page_get_btree_node(w1, lp)
                        w2 == btree_cursor_set_flags(
                                btree_cursor_set_coupled_index(
                                  btree_cursor_set_coupled_page(
                                    page_add_cursor(w1, lp, c), c, lp),
                                  c, btree_node_get_count(lnode) - 1),
                                c, btree_cursor_get_flags(w1, c)
                                     \cup {BTREE_CURSOR_FLAG_COUPLED})
                        entry == btree_node_get_key(lnode,
                                   btree_cursor_get_coupled_index(w2, c))
                    IN to_last_duplicate(btree_cursor_set_dupe_id(w2, c, 0), c,
                                         entry, flags, x)

\* lines 221-296: the cursor is coupled
previous_coupled(w, c, flags, x) ==
    LET page == btree_cursor_get_coupled_page(w, c)
        node == page_get_btree_node(w, page)
        entry == btree_node_get_key(node, btree_cursor_get_coupled_index(w, c))
        d == btree_cursor_get_dupe_id(w, c)
    IN IF /\ KEY_HAS_DUPLICATES(entry)
          /\ HAM_SKIP_DUPLICATES \notin flags
          /\ d > 0
       THEN LET r == blob_duplicate_get(btree_cursor_set_dupe_id(w, c, d - 1),
                                        c, entry, d - 1, x)
            IN IF r.st # HAM_SUCCESS
               THEN LET w2 == btree_cursor_set_dupe_id(r.w, c, d)
                    IN IF r.st # HAM_KEY_NOT_FOUND THEN Ret(r.st, w2)
                       ELSE previous_key(w2, c, flags, x)
               ELSE Ret(HAM_SUCCESS, r.w)
       ELSE previous_key(w, c, flags, x)

move_previous(w, c, flags, x) ==
    IF btree_cursor_is_uncoupled(w, c)
    THEN LET r == btree_cursor_couple(w, c, x)
         IN IF r.st # HAM_SUCCESS THEN r ELSE previous_coupled(r.w, c, flags, x)
    ELSE IF ~btree_cursor_is_coupled(w, c) THEN Ret(HAM_CURSOR_IS_NIL, w)
    ELSE previous_coupled(w, c, flags, x)

(***************************************************************************)
(* __move_last                                                             *)
(***************************************************************************)
\* the descent loop: the leaf reached by following the last key's pointer
RECURSIVE DescendLast(_, _)
DescendLast(w, p) ==
    LET node == page_get_btree_node(w, p)
    IN IF btree_node_get_count(node) = 0 THEN 0
       ELSE IF btree_node_is_leaf(node) THEN p
       ELSE DescendLast(w, key_get_ptr(
                btree_node_get_key(node, btree_node_get_count(node) - 1)))

move_last_leftmost_child(w, c, flags, x) ==
    LET w1 == btree_cursor_set_to_nil(w, c)
    IN IF btree_get_rootpage(w1) = 0 THEN Ret(HAM_KEY_NOT_FOUND, w1)
       ELSE IF db_fetch_page_fails(x) THEN Ret(HAM_IO_ERROR, w1)
       ELSE LET leaf == DescendFirst(w1, btree_get_rootpage(w1))
            IN IF leaf = 0 THEN Ret(HAM_KEY_NOT_FOUND, w1)
               ELSE LET node == page_get_btree_node(w1, leaf)
                        w2 == CoupleAt(w1, c, leaf,
                                       btree_node_get_count(node) - 1, 0)
                        entry == btree_node_get_key(node,
                                   btree_cursor_get_coupled_index(w2, c))
                    IN to_last_duplicate(w2, c, entry, flags, x)

move_last(w, c, flags, x) ==
    LET w1 == btree_cursor_set_to_nil(w, c)
    IN IF btree_get_rootpage(w1) = 0 THEN Ret(HAM_KEY_NOT_FOUND, w1)
       ELSE IF db_fetch_page_fails(x) THEN Ret(HAM_IO_ERROR, w1)
       ELSE LET leaf == DescendLast(w1, btree_get_rootpage(w1))
            IN IF leaf = 0 THEN Ret(HAM_KEY_NOT_FOUND, w1)
               ELSE LET node == page_get_btree_node(w1, leaf)
                        w2 == CoupleAt(w1, c, leaf,
                                       btree_node_get_count(node) - 1, 0)
                        entry == btree_node_get_key(node,
                                   btree_cursor_get_coupled_index(w2, c))
                    IN to_last_duplicate(w2, c, entry, flags, x)

(***************************************************************************)
(* btree_cursor_is_nil                                                     *)
(***************************************************************************)
\* the parent cursor's is_coupled_to_txnop()
is_coupled_to_txnop(w, c) == w.cur[c].txnop

btree_cursor_is_nil(w, c) ==
    IF btree_cursor_is_uncoupled(w, c) THEN FALSE
    ELSE IF btree_cursor_is_coupled(w, c) THEN FALSE
    ELSE IF is_coupled_to_txnop(w, c) THEN FALSE
    ELSE TRUE

(***************************************************************************)
(* btree_cursor_uncouple                                                   *)
(***************************************************************************)
\* lines 453-456: the cursor leaves the list of its page
uncouple_the_page(w, c, flags) ==
    IF BTREE_CURSOR_UNCOUPLE_NO_REMOVE \notin flags
    THEN page_remove_cursor(w, btree_cursor_get_coupled_page(w, c), c)
    ELSE w

uncouple_removing_before_copy(w, c, flags, x) ==
    IF btree_cursor_is_uncoupled(w, c) \/ btree_cursor_is_nil(w, c)
    THEN Ret(HAM_SUCCESS, w)
    ELSE IF x = "alloc" \/ allocator_calloc(w, c) = 0 \/ x = "copy_key"
    THEN Ret(HAM_OUT_OF_MEMORY, uncouple_the_page(w, c, flags))
    ELSE Ret(HAM_SUCCESS,
             btree_cursor_set_uncoupled_key(
               btree_cursor_add_flag(
                 btree_cursor_clear_flag(
                   uncouple_the_page(
                     [w EXCEPT !.keybuf[allocator_calloc(w, c)] =
                        btree_node_get_key(
                          page_get_btree_node(
                            w, btree_cursor_get_coupled_page(w, c)),
                          btree_cursor_get_coupled_index(w, c)).key],
                     c, flags),
                   c, BTREE_CURSOR_FLAG_COUPLED),
                 c, BTREE_CURSOR_FLAG_UNCOUPLED),
               c, allocator_calloc(w, c)))

uncouple_keeping_coupled_flag(w, c, flags, x) ==
    IF btree_cursor_is_uncoupled(w, c) \/ btree_cursor_is_nil(w, c)
    THEN Ret(HAM_SUCCESS, w)
    ELSE LET node == page_get_btree_node(w, btree_cursor_get_coupled_page(w, c))
             entry == btree_node_get_key(node,
                        btree_cursor_get_coupled_index(w, c))
             key == allocator_calloc(w, c)
         IN IF x = "alloc" \/ key = 0 THEN Ret(HAM_OUT_OF_MEMORY, w)
            ELSE IF x = "copy_key" THEN Ret(HAM_OUT_OF_MEMORY, w)
            ELSE Ret(HAM_SUCCESS,
                     btree_cursor_set_uncoupled_key(
                       btree_cursor_add_flag(
                         uncouple_the_page(
                           [w EXCEPT !.keybuf[key] = entry.key], c, flags),
                         c, BTREE_CURSOR_FLAG_UNCOUPLED),
                       c, key))

btree_cursor_uncouple(w, c, flags, x) ==
    IF btree_cursor_is_uncoupled(w, c) \/ btree_cursor_is_nil(w, c)
    THEN Ret(HAM_SUCCESS, w)
    ELSE LET node == page_get_btree_node(w, btree_cursor_get_coupled_page(w, c))
             entry == btree_node_get_key(node,
                        btree_cursor_get_coupled_index(w, c))
             key == allocator_calloc(w, c)
         IN IF x = "alloc" \/ key = 0 THEN Ret(HAM_OUT_OF_MEMORY, w)
            ELSE IF x = "copy_key" THEN Ret(HAM_OUT_OF_MEMORY, w)
            ELSE Ret(HAM_SUCCESS,
                     btree_cursor_set_uncoupled_key(
                       btree_cursor_add_flag(
                         btree_cursor_clear_flag(
                           uncouple_the_page(
                             [w EXCEPT !.keybuf[key] = entry.key], c, flags),
                           c, BTREE_CURSOR_FLAG_COUPLED),
                         c, BTREE_CURSOR_FLAG_UNCOUPLED),
                       c, key))

(***************************************************************************)
(* btree_cursor_clone.  The destination is the parent's new cursor object, *)
(* which the caller has copy-constructed from the source (NewCursorFrom)   *)
(* before it calls btree_cursor_clone.                                     *)
(***************************************************************************)
\* a cursor object as the allocator returns it
FreshCursor == [flags |-> {}, page |-> 0, idx |-> 0, dupe_id |-> 0,
                ukey |-> 0, cache |-> 0, txnop |-> FALSE]

\* the caller's member-wise copy of the source cursor
NewCursorFrom(w, src, dest) == [w EXCEPT !.cur[dest] = w.cur[src]]

clone_sharing_saved_key(w, src, dest, x) ==
    LET w1 == btree_cursor_set_dupe_id(w, dest, btree_cursor_get_dupe_id(w, src))
    IN IF btree_cursor_is_coupled(w1, src)
       THEN LET page == btree_cursor_get_coupled_page(w1, src)
            IN Ret(HAM_SUCCESS,
                   btree_cursor_set_coupled_page(
                     page_add_cursor(w1, page, dest), dest, page))
       ELSE IF btree_cursor_is_uncoupled(w1, src)
       THEN IF x = "alloc" \/ x = "copy_key" THEN Ret(HAM_OUT_OF_MEMORY, w1)
            ELSE Ret(HAM_SUCCESS,
                     btree_cursor_set_uncoupled_key(w1, dest,
                       btree_cursor_get_uncoupled_key(w1, src)))
       ELSE Ret(HAM_SUCCESS, w1)

btree_cursor_clone(w, src, dest, x) ==
    LET w1 == btree_cursor_set_dupe_id(w, dest, btree_cursor_get_dupe_id(w, src))
    IN IF btree_cursor_is_coupled(w1, src)
       THEN LET page == btree_cursor_get_coupled_page(w1, src)
            IN Ret(HAM_SUCCESS,
                   btree_cursor_set_coupled_page(
                     page_add_cursor(w1, page, dest), dest, page))
       ELSE IF btree_cursor_is_uncoupled(w1, src)
       THEN LET key == allocator_calloc(w1, dest)
            IN IF x = "alloc" \/ key = 0 THEN Ret(HAM_OUT_OF_MEMORY, w1)
               ELSE IF x = "copy_key" THEN Ret(HAM_OUT_OF_MEMORY, w1)
               ELSE Ret(HAM_SUCCESS,
                        btree_cursor_set_uncoupled_key(
                          [w1 EXCEPT !.keybuf[key] =
                             KeyAt(w1, btree_cursor_get_uncoupled_key(w1, src))],
                          dest, key))
       ELSE Ret(HAM_SUCCESS, w1)

(***************************************************************************)
(* btree_cursor_couple_to_other, btree_cursor_close                        *)
(***************************************************************************)
btree_cursor_couple_to_other(w, cu, other) ==
    LET w1 == btree_cursor_set_to_nil(w, cu)
        w2 == btree_cursor_set_coupled_page(w1, cu,
                btree_cursor_get_coupled_page(w1, other))
        w3 == btree_cursor_set_coupled_index(w2, cu,
                btree_cursor_get_coupled_index(w2, other))
        w4 == btree_cursor_set_dupe_id(w3, cu, btree_cursor_get_dupe_id(w3, other))
    IN btree_cursor_set_flags(w4, cu, btree_cursor_get_flags(w4, other))

btree_cursor_close(w, c) == btree_cursor_set_to_nil(w, c)

(***************************************************************************)
(* btree_uncouple_all_cursors(page, start); fc is the cursor (0: none) for *)
(* which the key allocation of btree_cursor_uncouple fails.                *)
(***************************************************************************)
\* the while loop over the cursors of the list
RECURSIVE uncouple_walk(_, _, _, _, _)
uncouple_walk(w, rest, start, fc, skipped) ==
    IF rest = <<>> THEN [st |-> HAM_SUCCESS, w |-> w, skipped |-> skipped]
    ELSE LET c == Head(rest)
             uncoupled(r) ==
                 IF r.st # HAM_SUCCESS
                 THEN [st |-> r.st, w |-> r.w, skipped |-> skipped]
                 ELSE uncouple_walk(r.w, Tail(rest), start, fc, skipped)
         IN IF btree_cursor_is_coupled(w, c) \/ is_coupled_to_txnop(w, c)
            THEN IF btree_cursor_get_coupled_index(w, c) < start
                 THEN uncouple_walk(w, Tail(rest), start, fc, TRUE)
                 ELSE uncoupled(btree_cursor_uncouple(w, c, {},
                                  IF c = fc THEN "alloc" ELSE "ok"))
            ELSE uncouple_walk(w, Tail(rest), start, fc, skipped)

\* lines 811-814: the list is emptied when no cursor was skipped
uncouple_all_done(r, page) ==
    IF r.st # HAM_SUCCESS THEN Ret(r.st, r.w)
    ELSE IF ~r.skipped THEN Ret(HAM_SUCCESS, page_set_cursors(r.w, page, <<>>))
    ELSE Ret(HAM_SUCCESS, r.w)

uncouple_all_ignoring_start(w, page, start, fc) ==
    uncouple_all_done(
      uncouple_walk(w, page_get_cursors(w, page), 0, fc, FALSE), page)

btree_uncouple_all_cursors(w, page, start, fc) ==
    uncouple_all_done(
      uncouple_walk(w, page_get_cursors(w, page), start, fc, FALSE), page)

(***************************************************************************)
(* btree_cursor_move.  wantkey / wantrec: the caller passed a key / record *)
(* to fill.  The result also carries the key and the record id read.       *)
(***************************************************************************)
MoveRet(st, w, k, r) == [st |-> st, w |-> w, key |-> k, rec |-> r]

\* lines 592-637: read the key and the record at the coupled position
read_position(w, c, wantkey, wantrec, x) ==
    IF ~btree_cursor_is_coupled(w, c)
    THEN MoveRet("ASSERTION_FAILED", w, 0, 0)
    ELSE LET page == btree_cursor_get_coupled_page(w, c)
             node == page_get_btree_node(w, page)
             entry == btree_node_get_key(node,
                        btree_cursor_get_coupled_index(w, c))
             k == IF wantkey THEN entry.key ELSE 0
         IN IF wantkey /\ x = "read_key" THEN MoveRet(HAM_IO_ERROR, w, 0, 0)
            ELSE IF ~wantrec THEN MoveRet(HAM_SUCCESS, w, k, 0)
            ELSE IF KEY_HAS_DUPLICATES(entry)
                    /\ btree_cursor_get_dupe_id(w, c) # 0
            THEN LET r == IF w.cur[c].cache = 0
                          THEN blob_duplicate_get(w, c, entry,
                                 btree_cursor_get_dupe_id(w, c),
                                 IF x = "dupget_read" THEN "dupget" ELSE "ok")
                          ELSE Ret(HAM_SUCCESS, w)
                 IN IF r.st # HAM_SUCCESS THEN MoveRet(r.st, r.w, k, 0)
                    ELSE IF x = "read_record"
                    THEN MoveRet(HAM_IO_ERROR, r.w, k, 0)
                    ELSE MoveRet(HAM_SUCCESS, r.w, k, r.w.cur[c].cache)
            ELSE IF x = "read_record" THEN MoveRet(HAM_IO_ERROR, w, k, 0)
            ELSE MoveRet(HAM_SUCCESS, w, k,
                         IF entry.dups = <<>> THEN 0 ELSE entry.dups[1])

\* lines 570-587: the move in the direction the flags name
move_in_direction(w, c, flags, x) ==
    IF HAM_CURSOR_FIRST \in flags THEN move_first(w, c, flags, x)
    ELSE IF HAM_CURSOR_LAST \in flags THEN move_last(w, c, flags, x)
    ELSE IF HAM_CURSOR_NEXT \in flags THEN move_next(w, c, flags, x)
    ELSE IF HAM_CURSOR_PREVIOUS \in flags THEN move_previous(w, c, flags, x)
    ELSE IF btree_cursor_is_uncoupled(w, c) THEN btree_cursor_couple(w, c, x)
    ELSE Ret(HAM_SUCCESS, w)

\* lines 589-637: the status r of the move is returned, or the position read
move_read(r, c, wantkey, wantrec, x) ==
    IF r.st # HAM_SUCCESS THEN MoveRet(r.st, r.w, 0, 0)
    ELSE read_position(r.w, c, wantkey, wantrec, x)

\* the buffer pool evicts page p: a pinned page stays, the cursors of any
\* other page are uncoupled before the page leaves memory
cache_evict(w, p) ==
    IF page_get_refcount(w, p) > 0 THEN w
    ELSE btree_uncouple_all_cursors(w, p, 0, 0).w

move_keeping_dupe_cache(w, c, wantkey, wantrec, flags, x) ==
    IF x = "no_backend" THEN MoveRet(HAM_NOT_INITIALIZED, w, 0, 0)
    ELSE IF HAM_CURSOR_FIRST \notin flags /\ HAM_CURSOR_LAST \notin flags
            /\ HAM_CURSOR_NEXT \notin flags /\ HAM_CURSOR_PREVIOUS \notin flags
            /\ btree_cursor_is_nil(w, c)
    THEN IF wantkey \/ wantrec THEN MoveRet(HAM_CURSOR_IS_NIL, w, 0, 0)
         ELSE MoveRet(HAM_SUCCESS, w, 0, 0)
    ELSE move_read(move_in_direction(w, c, flags, x), c, wantkey, wantrec, x)

btree_cursor_move(w, c, wantkey, wantrec, flags, x) ==
    IF x = "no_backend" THEN MoveRet(HAM_NOT_INITIALIZED, w, 0, 0)
    ELSE LET w0 == clear_dupe_cache(w, c)
             nilret == HAM_CURSOR_FIRST \notin flags
                       /\ HAM_CURSOR_LAST \notin flags
                       /\ HAM_CURSOR_NEXT \notin flags
                       /\ HAM_CURSOR_PREVIOUS \notin flags
                       /\ btree_cursor_is_nil(w0, c)
         IN IF nilret
            THEN IF wantkey \/ wantrec THEN MoveRet(HAM_CURSOR_IS_NIL, w0, 0, 0)
                 ELSE MoveRet(HAM_SUCCESS, w0, 0, 0)
            ELSE move_read(move_in_direction(w0, c, flags, x),
                           c, wantkey, wantrec, x)

(***************************************************************************)
(* btree_cursor_overwrite; key_set_record replaces the record id at the    *)
(* cursor's duplicate index.                                               *)
(***************************************************************************)
key_set_record(w, page, slot, dupe_id, rid, x) ==
    IF x = "set_record" THEN Ret(HAM_IO_ERROR, w)
    ELSE IF slot >= Len(w.pages[page].keys)
            \/ dupe_id >= Len(w.pages[page].keys[slot + 1].dups)
    THEN Ret(HAM_KEY_NOT_FOUND, w)
    ELSE Ret(HAM_SUCCESS,
             [w EXCEPT !.pages[page].keys[slot + 1].dups[dupe_id + 1] = rid])

\* lines 543-549: the status of key_set_record decides
record_set(r, page) ==
    IF r.st # HAM_SUCCESS THEN r ELSE Ret(HAM_SUCCESS, page_set_dirty(r.w, page))

overwrite_without_set_dirty(w, c, rid, x) ==
    key_set_record(clear_dupe_cache(w, c), btree_cursor_get_coupled_page(w, c),
                   btree_cursor_get_coupled_index(w, c),
                   btree_cursor_get_dupe_id(w, c), rid, x)

\* lines 531-549: the cursor is coupled
overwrite_coupled(w, c, rid, x) ==
    record_set(key_set_record(clear_dupe_cache(w, c),
                              btree_cursor_get_coupled_page(w, c),
                              btree_cursor_get_coupled_index(w, c),
                              btree_cursor_get_dupe_id(w, c), rid, x),
               btree_cursor_get_coupled_page(w, c))

btree_cursor_overwrite(w, c, rid, x) ==
    IF btree_cursor_is_uncoupled(w, c)
    THEN LET r == btree_cursor_couple(w, c, x)
         IN IF r.st # HAM_SUCCESS THEN r ELSE overwrite_coupled(r.w, c, rid, x)
    ELSE IF ~btree_cursor_is_coupled(w, c) THEN Ret(HAM_CURSOR_IS_NIL, w)
    ELSE overwrite_coupled(w, c, rid, x)

(***************************************************************************)
(* The B-tree's structural operations (external to the cursor code).  The  *)
(* tree is a chain of leaves under at most one internal root; leaf p holds *)
(* the keys (p-1)*NodeCap+1 .. p*NodeCap that are present, a leaf without  *)
(* keys is unlinked unless it is the only page.  Before the slots of a     *)
(* page at or past a position change, the page's cursors from that         *)
(* position on are uncoupled with btree_uncouple_all_cursors.              *)
(***************************************************************************)
\* the leaf of key k
LeafOf(k) == ((k - 1) \div NodeCap) + 1

\* sibling links and the root, rebuilt over the leaves in use
Relink(w) ==
    LET used == LeafPages(w)
        lower(p) == {q \in used : q < p}
        upper(p) == {q \in used : q > p}
        left(p) == IF lower(p) = {} THEN 0
                   ELSE CHOOSE q \in lower(p) : \A q2 \in lower(p) : q2 <= q
        right(p) == IF upper(p) = {} THEN 0
                    ELSE CHOOSE q \in upper(p) : \A q2 \in upper(p) : q <= q2
        first == CHOOSE q \in used : \A q2 \in used : q <= q2
        leaves == [p \in PageIds |->
                     IF p \in used
                     THEN [w.pages[p] EXCEPT !.left = left(p), !.right = right(p)]
                     ELSE NoPage]
    IN IF used = {} THEN [w EXCEPT !.root = 0, !.pages = leaves]
       ELSE IF Cardinality(used) = 1
       THEN [w EXCEPT !.root = first, !.pages = leaves]
       ELSE [w EXCEPT
               !.root = InternalId,
               !.pages = [leaves EXCEPT ![InternalId] =
                            [used |-> TRUE, leaf |-> FALSE,
                             keys |-> [i \in 1..(Cardinality(used) - 1) |->
                                         LET q == CHOOSE q \in used :
                                                    Cardinality(lower(q)) = i
                                         IN Separator(w.pages[q].keys[1].key, q)],
                             left |-> 0, right |-> 0, ptr_left |-> first,
                             refcount |-> 0, dirty |-> TRUE]]]

\* s with e inserted before (0-based) position slot
InsertAt(s, slot, e) ==
    SubSeq(s, 1, slot) \o <<e>> \o SubSeq(s, slot + 1, Len(s))

\* s without its (0-based) position slot
RemoveAt(s, slot) == SubSeq(s, 1, slot) \o SubSeq(s, slot + 2, Len(s))

\* the slot of a new key k in leaf p
InsertSlot(w, p, k) ==
    Cardinality({i \in 1..Len(w.pages[p].keys) : w.pages[p].keys[i].key < k})

\* the leaves without keys (only an empty root can be one)
EmptyLeaves(w) == {p \in LeafPages(w) : w.pages[p].keys = <<>>}

\* the tree after key k with record id rid went in as a new key
TreeInsert(w, k, rid) ==
    LET p == LeafOf(k)
        slot == IF w.pages[p].used THEN InsertSlot(w, p, k) ELSE 0
        w1 == [w EXCEPT !.pages =
                 [q \in PageIds |->
                    IF q = p
                    THEN [used |-> TRUE, leaf |-> TRUE,
                          keys |-> InsertAt(w.pages[p].keys, slot,
                                            Entry(k, <<rid>>)),
                          left |-> 0, right |-> 0, ptr_left |-> 0,
                          refcount |-> w.pages[p].refcount, dirty |-> TRUE]
                    ELSE IF q \in EmptyLeaves(w) THEN NoPage
                    ELSE w.pages[q]]]
    IN [w |-> Relink(w1), place |-> <<p, slot>>]

\* the tree after the key at <<p, slot>> was removed
TreeErase(w, p, slot) ==
    LET w1 == [w EXCEPT !.pages[p].keys = RemoveAt(@, slot),
                        !.pages[p].dirty = TRUE]
    IN IF w1.pages[p].keys # <<>> \/ Cardinality(LeafPages(w)) = 1
       THEN Relink(w1)
       ELSE Relink([w1 EXCEPT !.pages[p] = NoPage])

\* uncouples the cursors of every page in ps from slot 0 on
RECURSIVE uncouple_pages(_, _, _)
uncouple_pages(w, ps, fc) ==
    IF ps = {} THEN Ret(HAM_SUCCESS, w)
    ELSE LET p == CHOOSE q \in ps : TRUE
             uncoupled(r) == IF r.st # HAM_SUCCESS THEN r
                             ELSE uncouple_pages(r.w, ps \ {p}, fc)
         IN uncoupled(btree_uncouple_all_cursors(w, p, 0, fc))

\* btree_insert_cursor: a new key goes in; an existing key gets another
\* duplicate with HAM_DUPLICATE and is refused without.  On success the
\* cursor is coupled to the new item.
btree_insert_cursor(w, k, rid, c, flags, x, fc) ==
    IF x = "insert" THEN Ret(HAM_IO_ERROR, w)
    ELSE IF PlacesOf(w, k) # {}
    THEN LET pl == CHOOSE q \in PlacesOf(w, k) : TRUE
             n == Len(w.pages[pl[1]].keys[pl[2] + 1].dups)
         IN IF HAM_DUPLICATE \notin flags THEN Ret(HAM_DUPLICATE_KEY, w)
            ELSE Ret(HAM_SUCCESS,
                     CoupleAt(btree_cursor_set_to_nil(
                                [w EXCEPT !.pages[pl[1]].keys[pl[2] + 1].dups =
                                             Append(@, rid),
                                          !.pages[pl[1]].dirty = TRUE], c),
                              c, pl[1], pl[2], n))
    ELSE LET p == LeafOf(k)
             inserted(t) ==
                 Ret(HAM_SUCCESS,
                     CoupleAt(btree_cursor_set_to_nil(t.w, c), c,
                              t.place[1], t.place[2], 0))
             uncoupled(r) == IF r.st # HAM_SUCCESS THEN r
                             ELSE inserted(TreeInsert(r.w, k, rid))
             emptied(r1) ==
                 IF r1.st # HAM_SUCCESS \/ ~w.pages[p].used THEN uncoupled(r1)
                 ELSE uncoupled(btree_uncouple_all_cursors(
                                  r1.w, p, InsertSlot(r1.w, p, k), fc))
         IN emptied(uncouple_pages(w, EmptyLeaves(w) \ {p}, fc))

\* btree_erase_cursor: removes key k with all its duplicates
btree_erase_cursor(w, k, c, x, fc) ==
    IF x = "erase" THEN Ret(HAM_IO_ERROR, w)
    ELSE IF PlacesOf(w, k) = {} THEN Ret(HAM_KEY_NOT_FOUND, w)
    ELSE LET pl == CHOOSE q \in PlacesOf(w, k) : TRUE
             uncoupled(r) == IF r.st # HAM_SUCCESS THEN r
                             ELSE Ret(HAM_SUCCESS, TreeErase(r.w, pl[1], pl[2]))
         IN uncoupled(btree_uncouple_all_cursors(w, pl[1], pl[2], fc))

(***************************************************************************)
(* btree_cursor_insert, btree_cursor_erase                                 *)
(***************************************************************************)
btree_cursor_insert(w, c, k, rid, flags, x, fc) ==
    IF x = "no_backend" THEN Ret(HAM_NOT_INITIALIZED, w)
    ELSE btree_insert_cursor(w, k, rid, c, flags, x, fc)

erase_uncoupled_leaving_cursor(w, c, x, fc) ==
    btree_erase_cursor(w, KeyAt(w, btree_cursor_get_uncoupled_key(w, c)), c, x, fc)

\* lines 704-709: the cursor is uncoupled
erase_uncoupled(w, c, x, fc) ==
    LET erased(r) == IF r.st # HAM_SUCCESS THEN r
                     ELSE Ret(HAM_SUCCESS, btree_cursor_set_to_nil(r.w, c))
    IN erased(btree_erase_cursor(
                w, KeyAt(w, btree_cursor_get_uncoupled_key(w, c)), c, x, fc))

btree_cursor_erase(w, c, x, fc) ==
    LET uncoupled(r) == IF r.st # HAM_SUCCESS THEN r
                        ELSE erase_uncoupled(r.w, c, x, fc)
    IN IF x = "no_backend" THEN Ret(HAM_NOT_INITIALIZED, w)
       ELSE IF btree_cursor_is_coupled(w, c)
       THEN uncoupled(btree_cursor_uncouple(w, c, {}, x))
       ELSE IF ~btree_cursor_is_uncoupled(w, c) THEN Ret(HAM_CURSOR_IS_NIL, w)
       ELSE erase_uncoupled(w, c, x, fc)

(***************************************************************************)
(* btree_cursor_points_to: the key is the entry at place <<page, slot>>.   *)
(* The function returns ham_bool_t; a failed couple returns its status,    *)
(* which is non-zero.                                                      *)
(***************************************************************************)
btree_cursor_points_to(w, c, place, x) ==
    LET r == IF btree_cursor_is_uncoupled(w, c) THEN btree_cursor_couple(w, c, x)
             ELSE Ret(HAM_SUCCESS, w)
    IN IF r.st # HAM_SUCCESS THEN [st |-> r.st, w |-> r.w, eq |-> TRUE]
       ELSE [st |-> HAM_SUCCESS, w |-> r.w,
             eq |-> /\ btree_cursor_is_coupled(r.w, c)
                    /\ place = <<btree_cursor_get_coupled_page(r.w, c),
                                 btree_cursor_get_coupled_index(r.w, c)>>]

(***************************************************************************)
(* The state machine: one action per public function.                      *)
(***************************************************************************)
\* The coupled page and index of a cursor are read only while the cursor   
\* is COUPLED (no cursor of this state machine is coupled to a txn op), so 
\* the state records them as 0 while it is not.
Canon(w) ==
    [w EXCEPT !.cur = [c \in Cursors |->
        IF BTREE_CURSOR_FLAG_COUPLED \in w.cur[c].flags THEN w.cur[c]
        ELSE [w.cur[c] EXCEPT !.page = 0, !.idx = 0]]]

(***************************************************************************)
(* The plugin registry (4uqi/plugins.cc): the map from plugin names to     *)
(* descriptors and the handles of the libraries opened by import.          *)
(***************************************************************************)
\* at most MaxHandles libraries are opened
MaxHandles == 2

PluginNames == {"a", "b"}
Libraries == {1, 2}

UPS_SUCCESS == "SUCCESS"
UPS_PLUGIN_NOT_FOUND == "PLUGIN_NOT_FOUND"
UQI_PLUGIN_PREDICATE == "PREDICATE"
UQI_PLUGIN_AGGREGATE == "AGGREGATE"

\* a function pointer: 0 is null
FunctionPointers == {0, 1}

\* the descriptors uqi_plugin_t a caller or a library can hand in
Descriptors ==
    [name : PluginNames,
     type : {UQI_PLUGIN_PREDICATE, UQI_PLUGIN_AGGREGATE, "UNKNOWN"},
     plugin_version : {0, 1},
     pred : FunctionPointers,
     agg_single : FunctionPointers,
     agg_many : FunctionPointers]

\* no entry in the map; the null pointer of get
NoPlugin == [name |-> ""]

Registry == [plugins |-> plugins, handles |-> handles]

RegRet(st, reg) == [st |-> st, reg |-> reg]

PluginMap_insert_or_assign(m, name, plugin) == [m EXCEPT ![name] = plugin]

\* std::map::insert: an entry whose key is in the map already stays
PluginMap_insert(m, name, plugin) ==
    IF m[name] # NoPlugin THEN m ELSE [m EXCEPT ![name] = plugin]

add_without_agg_many_check(reg, plugin) ==
    IF plugin.plugin_version # 0 THEN RegRet(UPS_PLUGIN_NOT_FOUND, reg)
    ELSE IF plugin.type = UQI_PLUGIN_PREDICATE /\ plugin.pred = 0
    THEN RegRet(UPS_PLUGIN_NOT_FOUND, reg)
    ELSE IF plugin.type = UQI_PLUGIN_AGGREGATE /\ plugin.agg_single = 0
    THEN RegRet(UPS_PLUGIN_NOT_FOUND, reg)
    ELSE IF plugin.type \notin {UQI_PLUGIN_PREDICATE, UQI_PLUGIN_AGGREGATE}
    THEN RegRet(UPS_PLUGIN_NOT_FOUND, reg)
    ELSE RegRet(UPS_SUCCESS,
                [reg EXCEPT !.plugins =
                    PluginMap_insert(@, plugin.name, plugin)])

\* PluginManager::add
PluginManager_add(reg, plugin) ==
    IF plugin.plugin_version # 0 THEN RegRet(UPS_PLUGIN_NOT_FOUND, reg)
    ELSE IF plugin.type = UQI_PLUGIN_PREDICATE /\ plugin.pred = 0
    THEN RegRet(UPS_PLUGIN_NOT_FOUND, reg)
    ELSE IF plugin.type = UQI_PLUGIN_AGGREGATE
            /\ (plugin.agg_single = 0 \/ plugin.agg_many = 0)
    THEN RegRet(UPS_PLUGIN_NOT_FOUND, reg)
    ELSE IF plugin.type \notin {UQI_PLUGIN_PREDICATE, UQI_PLUGIN_AGGREGATE}
    THEN RegRet(UPS_PLUGIN_NOT_FOUND, reg)
    ELSE RegRet(UPS_SUCCESS,
                [reg EXCEPT !.plugins =
                    PluginMap_insert(@, plugin.name, plugin)])

\* PluginManager::get: the entry of the map, NoPlugin for the null pointer
PluginManager_get(reg, plugin_name) == reg.plugins[plugin_name]

\* PluginManager::is_registered
PluginManager_is_registered(reg, plugin_name) ==
    PluginManager_get(reg, plugin_name) # NoPlugin

\* PluginManager::cleanup: every handle is closed, the map is left alone
PluginManager_cleanup(reg) == [reg EXCEPT !.handles = <<>>]

\* PluginManager::import of plugin_name from library; x names the step that
\* fails ("ok": none), plugin is what the library's plugin_descriptor
\* returns for plugin_name
PluginManager_import(reg, library, plugin, x) ==
    IF x = "dlopen" THEN RegRet(UPS_PLUGIN_NOT_FOUND, reg)
    ELSE IF x = "dlsym" \/ plugin = NoPlugin
    THEN RegRet(UPS_PLUGIN_NOT_FOUND,
                [reg EXCEPT !.handles = Append(@, library)])
    ELSE PluginManager_add([reg EXCEPT !.handles = Append(@, library)], plugin)

\* the threads that run import step by step; add, get and cleanup hold
\* their mutex from their first access to their last and are one step
Importers == {1}

\* an importer outside import
IdleThread == [pc |-> "idle", dl |-> 0, plugin |-> NoPlugin]

ApplyRegistry(reg) ==
    /\ plugins' = reg.plugins
    /\ handles' = reg.handles
    /\ UNCHANGED <<root, pages, list, cur, keybuf, threads>>

Apply(w) ==
    /\ root' = Canon(w).root
    /\ pages' = Canon(w).pages
    /\ list' = Canon(w).list
    /\ cur' = Canon(w).cur
    /\ keybuf' = Canon(w).keybuf
    /\ UNCHANGED <<plugins, handles, threads>>

Init ==
    /\ root = 0
    /\ pages = [p \in PageIds |-> NoPage]
    /\ list = [p \in PageIds |-> <<>>]
    /\ cur = [c \in Cursors |-> FreshCursor]
    /\ keybuf = [p \in KeyPtrs |-> 0]
    /\ plugins = [n \in PluginNames |-> NoPlugin]
    /\ handles = <<>>
    /\ threads = [t \in Importers |-> IdleThread]

\* the record id an insert stores for the n-th duplicate of key k
RidOf(k, n) == k * 10 + n

\* no cursor object lives in slot c: a new cursor can be made there
Vacant(w, c) ==
    /\ w.cur[c].flags = {}
    /\ w.cur[c].ukey = 0
    /\ \A p \in PageIds : ~InSeq(w.list[p], c)

\* every cursor coupled to page p is linked in p's cursor list: what the
\* B-tree relies on when it changes the slots of p (the caller of
\* couple_to_other is responsible for the list membership)
PageCursorsListed(w, p) ==
    \A c \in Cursors :
        (btree_cursor_is_coupled(w, c) /\ btree_cursor_get_coupled_page(w, c) = p)
            => InSeq(w.list[p], c)

\* btree_cursor_create on a new cursor object.  (No caller in
\* btree_cursor.cc passes BTREE_CURSOR_UNCOUPLE_NO_REMOVE, so the Uncouple
\* action below passes no flag.)
Create(c) ==
    /\ Vacant(World, c)
    /\ cur' = [cur EXCEPT ![c] = FreshCursor]
    /\ UNCHANGED <<root, pages, list, keybuf, plugins, handles, threads>>

\* the parent's clone: a new cursor object copied from src, then
\* btree_cursor_clone; the new object is dropped when the clone fails
CloneResult(w, src, dest, x) ==
    LET r == btree_cursor_clone(NewCursorFrom(w, src, dest), src, dest, x)
    IN IF r.st = HAM_SUCCESS THEN r
       ELSE Ret(r.st, [r.w EXCEPT !.cur[dest] = FreshCursor])

Clone(src, dest, x) ==
    /\ src # dest
    /\ Vacant(World, dest)
    /\ Apply(CloneResult(World, src, dest, x).w)

Find(c, k, x) == Apply(btree_cursor_find(World, c, k, x).w)

Move(c, flags, want, x) ==
    Apply(btree_cursor_move(World, c, want, want, flags, x).w)

\* the number of duplicates key k has
DupCount(w, k) ==
    IF PlacesOf(w, k) = {} THEN 0
    ELSE LET pl == CHOOSE q \in PlacesOf(w, k) : TRUE
         IN Len(w.pages[pl[1]].keys[pl[2] + 1].dups)

\* the environment's side of an insert of key k: room for the duplicate,
\* and the cursors of the pages about to change are in their lists
CanInsert(w, k) ==
    /\ DupCount(w, k) < MaxDups
    /\ PlacesOf(w, k) = {} =>
          \A p \in EmptyLeaves(w) \cup {LeafOf(k)} : PageCursorsListed(w, p)

InsertResult(w, c, k, flags, x, fc) ==
    btree_cursor_insert(w, c, k, RidOf(k, DupCount(w, k)), flags, x, fc)

Insert(c, k, flags, x, fc) ==
    /\ CanInsert(World, k)
    /\ Apply(InsertResult(World, c, k, flags, x, fc).w)

Overwrite(c, rid, x) == Apply(btree_cursor_overwrite(World, c, rid, x).w)

\* the key cursor c stands for (0: none)
KeyOfCursor(w, c) ==
    IF btree_cursor_is_coupled(w, c)
    THEN btree_node_get_key(page_get_btree_node(w, btree_cursor_get_coupled_page(w, c)),
                            btree_cursor_get_coupled_index(w, c)).key
    ELSE IF btree_cursor_is_uncoupled(w, c)
    THEN KeyAt(w, btree_cursor_get_uncoupled_key(w, c))
    ELSE 0

\* the environment's side of an erase through cursor c
CanErase(w, c) ==
    \A pl \in PlacesOf(w, KeyOfCursor(w, c)) : PageCursorsListed(w, pl[1])

Erase(c, x, fc) ==
    /\ CanErase(World, c)
    /\ Apply(btree_cursor_erase(World, c, x, fc).w)

Uncouple(c, flags, x) == Apply(btree_cursor_uncouple(World, c, flags, x).w)

CoupleToOther(cu, other) ==
    /\ btree_cursor_is_coupled(World, other)
    /\ Apply(btree_cursor_couple_to_other(World, cu, other))

PointsTo(c, place, x) == Apply(btree_cursor_points_to(World, c, place, x).w)

SetToNil(c) == Apply(btree_cursor_set_to_nil(World, c))

Close(c) == Apply(btree_cursor_close(World, c))

UncoupleAll(p, start, fc) ==
    /\ pages[p].used /\ pages[p].leaf
    /\ Apply(btree_uncouple_all_cursors(World, p, start, fc).w)

(***************************************************************************)
(* The inputs of the calls.  A fault names the one external call that      *)
(* fails during the call ("ok": none does).                                *)
(***************************************************************************)
Directions == {{}, {HAM_CURSOR_FIRST}, {HAM_CURSOR_LAST}, {HAM_CURSOR_NEXT},
               {HAM_CURSOR_PREVIOUS}}

\* the duplicate flags a move with direction dir looks at
DupFlags(dir) ==
    IF dir \in {{}, {HAM_CURSOR_FIRST}} THEN {{}}
    ELSE IF dir = {HAM_CURSOR_LAST} THEN {{}, {HAM_SKIP_DUPLICATES}}
    ELSE {{}, {HAM_SKIP_DUPLICATES}, {HAM_ONLY_DUPLICATES}}

\* the external calls on the way to the new position of a move
FaultsOfMove(dir) ==
    IF dir = {HAM_CURSOR_FIRST} THEN {"fetch"}
    ELSE IF dir = {HAM_CURSOR_LAST} THEN {"fetch", "dupcount"}
    ELSE IF dir = {HAM_CURSOR_NEXT} THEN {"copy_key", "find", "dupget", "fetch"}
    ELSE IF dir = {HAM_CURSOR_PREVIOUS}
    THEN {"copy_key", "find", "dupget", "dupcount", "fetch"}
    ELSE {"copy_key", "find"}

\* the external calls that read the key and the record at the position
ReadFaults == {"read_key", "read_record", "dupget_read"}

\* the inputs <<flags, want, fault>> of a move: a call that asks for key
\* and record can fail in the read as well
MoveInputs ==
    UNION {UNION {({dir \cup df} \X {FALSE, TRUE} \X {"ok"})
                    \cup ({dir \cup df} \X {FALSE} \X FaultsOfMove(dir))
                    \cup ({dir \cup df} \X {TRUE} \X ReadFaults)
                  : df \in DupFlags(dir)} : dir \in Directions}
      \cup {<<{}, FALSE, "no_backend">>}

CloneFaults == {"ok", "alloc", "copy_key"}
FindFaults == {"ok", "find", "no_backend"}
OverwriteFaults == {"ok", "copy_key", "find", "set_record"}
UncoupleFaults == {"ok", "alloc", "copy_key"}
CoupleFaults == {"ok", "copy_key", "find"}
\* the places <<page, slot>> of the leaves
Places == (1..NumLeaves) \X (0..(NodeCap - 1))
InsertFlags == {{}, {HAM_DUPLICATE}}
\* the cursor whose uncoupling fails inside a bulk uncouple (0: none)
FailingCursors == {0} \cup Cursors
\* <<fault, failing cursor>> of an insert and of an erase
InsertFaults == ({"ok"} \X FailingCursors) \cup ({"insert", "no_backend"} \X {0})
EraseFaults ==
    ({"ok"} \X FailingCursors) \cup ({"alloc", "erase", "no_backend"} \X {0})

Next ==
    \/ \E c \in Cursors : Create(c)
    \/ \E src \in Cursors, dest \in Cursors, x \in CloneFaults :
          Clone(src, dest, x)
    \/ \E c \in Cursors, k \in Keys, x \in FindFaults : Find(c, k, x)
    \/ \E c \in Cursors, in \in MoveInputs : Move(c, in[1], in[2], in[3])
    \/ \E c \in Cursors, k \in Keys, fl \in InsertFlags, xf \in InsertFaults :
          Insert(c, k, fl, xf[1], xf[2])
    \/ \E c \in Cursors, x \in OverwriteFaults :
          Overwrite(c, RidOf(KeyOfCursor(World, c), cur[c].dupe_id), x)
    \/ \E c \in Cursors, xf \in EraseFaults : Erase(c, xf[1], xf[2])
    \/ \E c \in Cursors, x \in UncoupleFaults : Uncouple(c, {}, x)
    \/ \E cu \in Cursors, other \in Cursors : CoupleToOther(cu, other)
    \/ \E c \in Cursors, pl \in Places, x \in CoupleFaults : PointsTo(c, pl, x)
    \/ \E c \in Cursors : SetToNil(c)
    \/ \E c \in Cursors : Close(c)
    \/ \E p \in PageIds, start \in 0..NodeCap, fc \in FailingCursors :
          UncoupleAll(p, start, fc)

Spec == Init /\ [][Next]_vars

(***************************************************************************)
(* The cursor calls together with the write-out of the pages, which clears *)
(* the dirty flags.                                                        *)
(***************************************************************************)
Flush == Apply(db_flush_all(World))

NextFlush ==
    \/ Flush
    \/ \E c \in Cursors, k \in Keys : Find(c, k, "ok")
    \/ \E c \in Cursors, k \in Keys, fl \in InsertFlags : Insert(c, k, fl, "ok", 0)
    \/ \E c \in Cursors, x \in OverwriteFaults :
          Overwrite(c, RidOf(KeyOfCursor(World, c), cur[c].dupe_id), x)
    \/ \E c \in Cursors : Erase(c, "ok", 0)
    \/ \E c \in Cursors : Uncouple(c, {}, "ok")

SpecFlush == Init /\ [][NextFlush]_vars

(***************************************************************************)
(* The cursor calls together with the parent cursor's coupling to a        *)
(* transaction op, which the B-tree cursor sees through                    *)
(* is_coupled_to_txnop.                                                    *)
(***************************************************************************)
couple_to_txnop(w, c) == [w EXCEPT !.cur[c].txnop = TRUE]

uncouple_from_txnop(w, c) == [w EXCEPT !.cur[c].txnop = FALSE]

CoupleToTxnOp(c) ==
    /\ ~is_coupled_to_txnop(World, c)
    /\ Apply(couple_to_txnop(World, c))

UncoupleFromTxnOp(c) ==
    /\ is_coupled_to_txnop(World, c)
    /\ Apply(uncouple_from_txnop(World, c))

NextTxn ==
    \/ \E c \in Cursors : CoupleToTxnOp(c)
    \/ \E c \in Cursors : UncoupleFromTxnOp(c)
    \/ \E c \in Cursors, k \in Keys : Find(c, k, "ok")
    \/ \E c \in Cursors, k \in Keys, fl \in InsertFlags : Insert(c, k, fl, "ok", 0)
    \/ \E c \in Cursors : Erase(c, "ok", 0)
    \/ \E c \in Cursors : SetToNil(c)

SpecTxn == Init /\ [][NextTxn]_vars

(***************************************************************************)
(* The calls of the plugin registry.                                       *)
(***************************************************************************)
Add(plugin) == ApplyRegistry(PluginManager_add(Registry, plugin).reg)

Import(library, plugin, x) ==
    /\ Len(handles) < MaxHandles
    /\ ApplyRegistry(PluginManager_import(Registry, library, plugin, x).reg)

Cleanup == ApplyRegistry(PluginManager_cleanup(Registry))

ImportFaults == {"ok", "dlopen", "dlsym"}

NextPlugins ==
    \/ \E plugin \in Descriptors : Add(plugin)
    \/ \E library \in Libraries, plugin \in Descriptors \cup {NoPlugin},
          x \in ImportFaults : Import(library, plugin, x)
    \/ Cleanup

SpecPlugins == Init /\ [][NextPlugins]_vars

(***************************************************************************)
(* The plugin registry under threads.  import runs in the steps between    *)
(* which another thread can run: dlopen (line 61), the push of the handle  *)
(* under handle_mutex (68-71), dlsym (74), the call of the library's       *)
(* plugin_descriptor (81) and add (87).  dlopen counts the references to a *)
(* library: every dlclose of cleanup takes one back, and the library is    *)
(* unloaded with the last one.  A step that uses an unloaded library has   *)
(* undefined behaviour: it crashes the process or goes on with whatever it *)
(* reads.                                                                  *)
(***************************************************************************)
\* the references dlopen has handed out for library and dlclose has not
\* taken back: the handles in the list and those not pushed yet
dl_refcount(library) ==
    Cardinality({i \in 1..Len(handles) : handles[i] = library})
      + Cardinality({t \in Importers : threads[t].pc = "opened"
                                         /\ threads[t].dl = library})

Loaded(library) == dl_refcount(library) > 0

\* no thread has crashed the process
Running == \A t \in Importers : threads[t].pc # "crashed"

ThreadStep(t, thread) ==
    /\ threads' = [threads EXCEPT ![t] = thread]
    /\ UNCHANGED <<root, pages, list, cur, keybuf, plugins, handles>>

\* an undefined step of thread t that ends the process
Crash(t) == ThreadStep(t, [threads[t] EXCEPT !.pc = "crashed"])

\* lines 61-65: a dlopen that fails returns without a trace
ImportOpen(t, library) ==
    /\ Running /\ threads[t].pc = "idle"
    /\ Len(handles) + Cardinality({u \in Importers : threads[u].pc = "opened"})
         < MaxHandles
    /\ ThreadStep(t, [pc |-> "opened", dl |-> library, plugin |-> NoPlugin])

\* lines 68-71
ImportPush(t) ==
    /\ Running /\ threads[t].pc = "opened"
    /\ handles' = Append(handles, threads[t].dl)
    /\ threads' = [threads EXCEPT ![t].pc = "pushed"]
    /\ UNCHANGED <<root, pages, list, cur, keybuf, plugins>>

\* lines 73-79: found is whether dlsym returns the symbol
ImportSym(t, found) ==
    /\ Running /\ threads[t].pc = "pushed"
    /\ \/ ThreadStep(t, IF found THEN [threads[t] EXCEPT !.pc = "resolved"]
                         ELSE IdleThread)
       \/ ~Loaded(threads[t].dl) /\ Crash(t)

\* lines 81-85: plugin is what plugin_descriptor returns
ImportFactory(t, plugin) ==
    /\ Running /\ threads[t].pc = "resolved"
    /\ \/ ThreadStep(t, IF plugin = NoPlugin THEN IdleThread
                         ELSE [threads[t] EXCEPT !.pc = "made",
                                                 !.plugin = plugin])
       \/ ~Loaded(threads[t].dl) /\ Crash(t)

\* line 87: the descriptor lives in the library; read is what add finds
\* there
ImportAdd(t, read) ==
    /\ Running /\ threads[t].pc = "made"
    /\ Loaded(threads[t].dl) => read = threads[t].plugin
    /\ \/ /\ plugins' = PluginManager_add(Registry, read).reg.plugins
          /\ threads' = [threads EXCEPT ![t] = IdleThread]
          /\ UNCHANGED <<root, pages, list, cur, keybuf, handles>>
       \/ ~Loaded(threads[t].dl) /\ Crash(t)

NextThreads ==
    \/ \E plugin \in Descriptors : Running /\ Add(plugin)
    \/ Running /\ Cleanup
    \/ \E t \in Importers, library \in Libraries : ImportOpen(t, library)
    \/ \E t \in Importers : ImportPush(t)
    \/ \E t \in Importers, found \in BOOLEAN : ImportSym(t, found)
    \/ \E t \in Importers, plugin \in Descriptors \cup {NoPlugin} :
          ImportFactory(t, plugin)
    \/ \E t \in Importers, read \in Descriptors : ImportAdd(t, read)

SpecThreads == Init /\ [][NextThreads]_vars

(***************************************************************************)
(* The outcomes of the calls that can be made in world w: the operation,   *)
(* the cursor it is made on, the status and the world it leaves.           *)
(***************************************************************************)
Outcome(op, c, r) == [op |-> op, c |-> c, st |-> r.st, w |-> r.w]

MoveOutcomes(w) ==
    {Outcome("move", ci[1],
             btree_cursor_move(w, ci[1], ci[2][2], ci[2][2], ci[2][1], ci[2][3]))
       : ci \in Cursors \X MoveInputs}

CloneOutcomes(w) ==
    {Outcome("clone", i[2], CloneResult(w, i[1], i[2], i[3]))
       : i \in {j \in Cursors \X Cursors \X CloneFaults :
                  j[1] # j[2] /\ Vacant(w, j[2])}}

FindOutcomes(w) ==
    {Outcome("find", i[1], btree_cursor_find(w, i[1], i[2], i[3]))
       : i \in Cursors \X Keys \X FindFaults}

InsertOutcomes(w) ==
    {Outcome("insert", i[1], InsertResult(w, i[1], i[2], i[3], i[4][1], i[4][2]))
       : i \in {j \in Cursors \X Keys \X InsertFlags \X InsertFaults :
                  CanInsert(w, j[2])}}

OverwriteOutcomes(w) ==
    {Outcome("overwrite", i[1],
             btree_cursor_overwrite(w, i[1],
                RidOf(KeyOfCursor(w, i[1]), w.cur[i[1]].dupe_id), i[2]))
       : i \in Cursors \X OverwriteFaults}

EraseOutcomes(w) ==
    {Outcome("erase", i[1], btree_cursor_erase(w, i[1], i[2][1], i[2][2]))
       : i \in {j \in Cursors \X EraseFaults : CanErase(w, j[1])}}

UncoupleOutcomes(w) ==
    {Outcome("uncouple", i[1], btree_cursor_uncouple(w, i[1], {}, i[2]))
       : i \in Cursors \X UncoupleFaults}

PointsToOutcomes(w) ==
    {Outcome("points_to", i[1], btree_cursor_points_to(w, i[1], i[2], i[3]))
       : i \in Cursors \X Places \X CoupleFaults}

CoupleToOtherOutcomes(w) ==
    {Outcome("couple_to_other", i[1],
             Ret(HAM_SUCCESS, btree_cursor_couple_to_other(w, i[1], i[2])))
       : i \in {j \in Cursors \X Cursors : btree_cursor_is_coupled(w, j[2])}}

NilOutcomes(w) ==
    {Outcome("set_to_nil", c, Ret(HAM_SUCCESS, btree_cursor_set_to_nil(w, c)))
       : c \in Cursors}
      \cup {Outcome("close", c, Ret(HAM_SUCCESS, btree_cursor_close(w, c)))
              : c \in Cursors}

UncoupleAllOutcomes(w) ==
    {Outcome("uncouple_all", 0,
             btree_uncouple_all_cursors(w, i[1], i[2], i[3]))
       : i \in {j \in PageIds \X (0..NodeCap) \X FailingCursors :
                  w.pages[j[1]].used /\ w.pages[j[1]].leaf}}

\* the calls on one cursor that report a status
CursorCallOutcomes(w) ==
    MoveOutcomes(w) \cup CloneOutcomes(w) \cup FindOutcomes(w)
      \cup InsertOutcomes(w) \cup OverwriteOutcomes(w) \cup EraseOutcomes(w)
      \cup UncoupleOutcomes(w) \cup PointsToOutcomes(w)

Outcomes(w) ==
    CursorCallOutcomes(w) \cup CoupleToOtherOutcomes(w) \cup NilOutcomes(w)
      \cup UncoupleAllOutcomes(w)

(***************************************************************************)
(* Membership of the cursors in the page cursor lists.                     *)
(***************************************************************************)
\* cursor c is a member of a cursor list
Listed(w, c) == \E p \in PageIds : InSeq(w.list[p], c)

\* every COUPLED cursor is a member of the list of its coupled page
CoupledListed(w) ==
    \A c \in Cursors :
        btree_cursor_is_coupled(w, c) =>
            /\ btree_cursor_get_coupled_page(w, c) \in PageIds
            /\ InSeq(w.list[btree_cursor_get_coupled_page(w, c)], c)

\* every UNCOUPLED or NIL cursor is a member of no list
UncoupledUnlisted(w) ==
    \A c \in Cursors : ~btree_cursor_is_coupled(w, c) => ~Listed(w, c)

\* C1 as stated: in every reachable state every COUPLED cursor is in the
\* list of its coupled page and every UNCOUPLED or NIL cursor is in no list.
C1_AsStated == CoupledListed(World) /\ UncoupledUnlisted(World)

\* C1, amended: in every reachable state every UNCOUPLED or NIL cursor is in
\* no list; every call other than couple_to_other that starts with all
\* COUPLED cursors in the lists of their pages ends that way; and
\* couple_to_other leaves the cursor it couples outside the list.
C1_ListMembership ==
    /\ UncoupledUnlisted(World)
    /\ CoupledListed(World) =>
          \A o \in Outcomes(World) :
              o.op # "couple_to_other" =>
                  CoupledListed(o.w) /\ UncoupledUnlisted(o.w)
    /\ \A o \in CoupleToOtherOutcomes(World) :
          btree_cursor_is_coupled(o.w, o.c) => ~Listed(o.w, o.c)

\* a cursor in the list of its page is moved to the sibling page's list
C1_Witness ==
    /\ CoupledListed(World)
    /\ \E o \in MoveOutcomes(World) :
          /\ o.st = HAM_SUCCESS
          /\ btree_cursor_is_coupled(World, o.c)
          /\ btree_cursor_is_coupled(o.w, o.c)
          /\ btree_cursor_get_coupled_page(o.w, o.c)
               # btree_cursor_get_coupled_page(World, o.c)
          /\ ~InSeq(o.w.list[btree_cursor_get_coupled_page(World, o.c)], o.c)
    /\ \E o \in CoupleToOtherOutcomes(World) :
          btree_cursor_is_coupled(o.w, o.c)

\* C2: in every reachable state no cursor has both COUPLED and UNCOUPLED
\* set, and no call produces such a cursor.
C2_FlagsExclusive ==
    /\ \A c \in Cursors :
          ~(btree_cursor_is_coupled(World, c) /\ btree_cursor_is_uncoupled(World, c))
    /\ \A o \in Outcomes(World) : \A c \in Cursors :
          ~(btree_cursor_is_coupled(o.w, c) /\ btree_cursor_is_uncoupled(o.w, c))

\* one cursor is COUPLED while the other, uncoupled from the same page, is
\* UNCOUPLED
C2_Witness ==
    \E c \in Cursors, d \in Cursors :
        /\ btree_cursor_is_coupled(World, c)
        /\ btree_cursor_is_uncoupled(World, d)
        /\ KeyOfCursor(World, c) = KeyOfCursor(World, d)

(***************************************************************************)
(* Bulk uncoupling.                                                        *)
(***************************************************************************)
\* the cursors COUPLED to a slot of page p
CoupledTo(w, p) ==
    {c \in Cursors : /\ btree_cursor_is_coupled(w, c)
                     /\ btree_cursor_get_coupled_page(w, c) = p}

\* what uncouple_all_cursors(p, k) is to leave of cursor c, coupled to page p
\* of world w, in world v
UncoupleAllPost(w, v, p, k, c) ==
    IF btree_cursor_get_coupled_index(w, c) < k
    THEN /\ btree_cursor_is_coupled(v, c)
         /\ ~btree_cursor_is_uncoupled(v, c)
         /\ btree_cursor_get_coupled_page(v, c) = p
         /\ btree_cursor_get_coupled_index(v, c)
              = btree_cursor_get_coupled_index(w, c)
         /\ InSeq(v.list[p], c)
    ELSE /\ btree_cursor_is_uncoupled(v, c)
         /\ ~btree_cursor_is_coupled(v, c)
         /\ KeyAt(v, btree_cursor_get_uncoupled_key(v, c))
              = btree_node_get_key(page_get_btree_node(w, p),
                                   btree_cursor_get_coupled_index(w, c)).key
         /\ KeyAt(v, btree_cursor_get_uncoupled_key(v, c)) \in Keys
         /\ ~InSeq(v.list[p], c)

\* the successful bulk uncouplings <<page, start, world left>> of world w
UncoupleAllRuns(w) ==
    {<<i[1], i[2], btree_uncouple_all_cursors(w, i[1], i[2], i[3]).w>>
       : i \in {j \in PageIds \X (0..NodeCap) \X FailingCursors :
                  /\ w.pages[j[1]].used /\ w.pages[j[1]].leaf
                  /\ btree_uncouple_all_cursors(w, j[1], j[2], j[3]).st
                       = HAM_SUCCESS}}

\* C3 as stated: a successful uncouple_all_cursors(page, k) leaves every
\* cursor coupled to a slot < k of the page COUPLED at its slot and in the
\* page's list, and every cursor coupled to a slot >= k UNCOUPLED with the
\* key of its slot saved and out of the list.
C3_AsStated ==
    \A run \in UncoupleAllRuns(World) :
        \A c \in CoupledTo(World, run[1]) :
            UncoupleAllPost(World, run[3], run[1], run[2], c)

\* C3, amended: the same, for the cursors coupled to the page that are
\* members of its cursor list; a cursor coupled to the page that is not in
\* the list (couple_to_other put it there) is left as it is.
C3_UncoupleAll ==
    \A run \in UncoupleAllRuns(World) :
        \A c \in CoupledTo(World, run[1]) :
            IF InSeq(list[run[1]], c)
            THEN UncoupleAllPost(World, run[3], run[1], run[2], c)
            ELSE run[3].cur[c] = cur[c]

\* two cursors of the list of one page, at slots 0 and 1, and a bulk
\* uncoupling from slot 1 on that succeeds
C3_Witness ==
    \E run \in UncoupleAllRuns(World) :
        /\ run[2] = 1
        /\ \E c \in Cursors, d \in Cursors :
              /\ {c, d} \subseteq CoupledTo(World, run[1])
              /\ InSeq(list[run[1]], c) /\ InSeq(list[run[1]], d)
              /\ cur[c].idx = 0 /\ cur[d].idx = 1
              /\ btree_cursor_is_coupled(run[3], c)
              /\ btree_cursor_is_uncoupled(run[3], d)

(***************************************************************************)
(* The position of a coupled cursor.                                       *)
(***************************************************************************)
\* cursor c points into a leaf, at one of its keys
ValidPosition(w, c) ==
    /\ btree_cursor_get_coupled_page(w, c) \in PageIds
    /\ w.pages[btree_cursor_get_coupled_page(w, c)].used
    /\ btree_node_is_leaf(page_get_btree_node(w, btree_cursor_get_coupled_page(w, c)))
    /\ 0 <= btree_cursor_get_coupled_index(w, c)
    /\ btree_cursor_get_coupled_index(w, c)
         < btree_node_get_count(
             page_get_btree_node(w, btree_cursor_get_coupled_page(w, c)))

\* C7: a move that returns success and leaves the cursor COUPLED leaves it
\* on a leaf, at a slot below the leaf's key count.
C7_MoveInRange ==
    \A o \in MoveOutcomes(World) :
        (o.st = HAM_SUCCESS /\ btree_cursor_is_coupled(o.w, o.c))
            => ValidPosition(o.w, o.c)

\* a NEXT from the last slot of a leaf crosses to slot 0 of the right
\* sibling, and a PREVIOUS from slot 0 to the last slot of the left sibling
C7_Witness ==
    /\ \E o \in MoveOutcomes(World) :
          /\ o.st = HAM_SUCCESS
          /\ btree_cursor_is_coupled(World, o.c)
          /\ btree_cursor_is_coupled(o.w, o.c)
          /\ o.w.cur[o.c].page = pages[cur[o.c].page].right
          /\ o.w.cur[o.c].idx = 0
    /\ \E o \in MoveOutcomes(World) :
          /\ o.st = HAM_SUCCESS
          /\ btree_cursor_is_coupled(World, o.c)
          /\ btree_cursor_is_coupled(o.w, o.c)
          /\ o.w.cur[o.c].page = pages[cur[o.c].page].left
          /\ o.w.cur[o.c].idx = Len(pages[o.w.cur[o.c].page].keys) - 1
          /\ o.w.cur[o.c].idx > 0

(***************************************************************************)
(* Walks over the items of the tree.                                       *)
(***************************************************************************)
\* the leftmost leaf (0: the tree has no page)
FirstLeaf(w) ==
    IF LeafPages(w) = {} THEN 0
    ELSE CHOOSE p \in LeafPages(w) : btree_node_get_left(w.pages[p]) = 0

\* the items <<key, duplicate index>> of one key entry, in order
RECURSIVE ItemsOfEntry(_, _)
ItemsOfEntry(entry, d) ==
    IF d >= Len(entry.dups) THEN <<>>
    ELSE <<<<entry.key, d>>>> \o ItemsOfEntry(entry, d + 1)

\* the items of the slots of a leaf from slot on
RECURSIVE ItemsOfLeaf(_, _)
ItemsOfLeaf(node, slot) ==
    IF slot >= btree_node_get_count(node) THEN <<>>
    ELSE ItemsOfEntry(btree_node_get_key(node, slot), 0)
           \o ItemsOfLeaf(node, slot + 1)

\* the items of the leaves from p on, along the right-sibling links
RECURSIVE ItemsFrom(_, _)
ItemsFrom(w, p) ==
    IF p = 0 THEN <<>>
    ELSE ItemsOfLeaf(w.pages[p], 0)
           \o ItemsFrom(w, btree_node_get_right(w.pages[p]))

\* every <<key, duplicate index>> of the tree, in slot / leaf order
Items(w) == ItemsFrom(w, FirstLeaf(w))

Reverse(s) == [i \in 1..Len(s) |-> s[Len(s) + 1 - i]]

\* the item a successful move reports: the key it read and the cursor's
\* duplicate index
ItemOf(r, c) == <<r.key, btree_cursor_get_dupe_id(r.w, c)>>

\* a walk is cut off after MaxSteps moves
MaxSteps == MaxKey * MaxDups + 2

\* the items visited by repeating move(dir) on cursor c until a move fails,
\* and the status of that move
RECURSIVE Repeat(_, _, _, _, _)
Repeat(w, c, dir, trail, n) ==
    LET r == btree_cursor_move(w, c, TRUE, TRUE, dir, "ok")
    IN IF n = 0 THEN [trail |-> trail, st |-> "CUT_OFF"]
       ELSE IF r.st # HAM_SUCCESS THEN [trail |-> trail, st |-> r.st]
       ELSE Repeat(r.w, c, dir, Append(trail, ItemOf(r, c)), n - 1)

\* move(start) followed by repeated move(dir)
Walk(w, c, start, dir) ==
    LET r == btree_cursor_move(w, c, TRUE, TRUE, start, "ok")
    IN IF r.st # HAM_SUCCESS THEN [trail |-> <<>>, st |-> r.st]
       ELSE Repeat(r.w, c, dir, <<ItemOf(r, c)>>, MaxSteps)

\* C8: on a non-empty tree FIRST and then NEXT until it fails visits every
\* <<key, duplicate index>> once, in slot / leaf order with the duplicates
\* of a key in index order, and the failing NEXT returns KEY_NOT_FOUND; LAST
\* and then PREVIOUS visits them in the reverse order.
C8_WalkVisitsAll ==
    Items(World) # <<>> =>
        \A c \in Cursors :
            /\ Walk(World, c, {HAM_CURSOR_FIRST}, {HAM_CURSOR_NEXT})
                 = [trail |-> Items(World), st |-> HAM_KEY_NOT_FOUND]
            /\ Walk(World, c, {HAM_CURSOR_LAST}, {HAM_CURSOR_PREVIOUS})
                 = [trail |-> Reverse(Items(World)), st |-> HAM_KEY_NOT_FOUND]

\* a tree of two leaves in which every key has its duplicates, walked by a
\* cursor that is uncoupled when the walk starts
C8_Witness ==
    /\ Len(Items(World)) = MaxKey * MaxDups
    /\ Cardinality(LeafPages(World)) > 1
    /\ \E c \in Cursors :
          /\ btree_cursor_is_uncoupled(World, c)
          /\ Walk(World, c, {HAM_CURSOR_FIRST}, {HAM_CURSOR_NEXT}).trail
               = Items(World)

\* cursor c is COUPLED at the last duplicate of the last key of the tree
AtLastItem(w, c) ==
    /\ btree_cursor_is_coupled(w, c)
    /\ ValidPosition(w, c)
    /\ InSeq(w.list[btree_cursor_get_coupled_page(w, c)], c)
    /\ LET node == page_get_btree_node(w, btree_cursor_get_coupled_page(w, c))
       IN /\ btree_node_get_right(node) = 0
          /\ btree_cursor_get_coupled_index(w, c) = btree_node_get_count(node) - 1
          /\ btree_cursor_get_dupe_id(w, c)
               = Len(btree_node_get_key(node,
                       btree_cursor_get_coupled_index(w, c)).dups) - 1

\* the moves <<flags, want>> that are a NEXT
NextMoves == {in \in MoveInputs : HAM_CURSOR_NEXT \in in[1] /\ in[3] = "ok"}

\* C10: NEXT on a cursor COUPLED at the last duplicate of the last key
\* returns KEY_NOT_FOUND and leaves the cursor COUPLED to the same page and
\* slot with the same duplicate index, and in that page's cursor list.
C10_NextAtEnd ==
    \A c \in Cursors :
        AtLastItem(World, c) =>
            \A in \in NextMoves :
                LET r == btree_cursor_move(World, c, in[2], in[2], in[1], "ok")
                IN /\ r.st = HAM_KEY_NOT_FOUND
                   /\ btree_cursor_get_flags(r.w, c) = btree_cursor_get_flags(World, c)
                   /\ btree_cursor_get_coupled_page(r.w, c)
                        = btree_cursor_get_coupled_page(World, c)
                   /\ btree_cursor_get_coupled_index(r.w, c)
                        = btree_cursor_get_coupled_index(World, c)
                   /\ btree_cursor_get_dupe_id(r.w, c)
                        = btree_cursor_get_dupe_id(World, c)
                   /\ r.w.list = list

\* a cursor at the second duplicate of the greatest key, in the right leaf
C10_Witness ==
    \E c \in Cursors :
        /\ AtLastItem(World, c)
        /\ KeyOfCursor(World, c) = MaxKey
        /\ btree_cursor_get_dupe_id(World, c) > 0
        /\ Cardinality(LeafPages(World)) > 1
        /\ btree_cursor_move(World, c, TRUE, TRUE, {HAM_CURSOR_NEXT}, "ok").st
             = HAM_KEY_NOT_FOUND

\* the result of move(NEXT) at the end, the move(PREVIOUS) after it and the
\* move(PREVIOUS) after that
AfterEnd(w, c) ==
    LET r1 == btree_cursor_move(w, c, TRUE, TRUE, {HAM_CURSOR_NEXT}, "ok")
        r2 == btree_cursor_move(r1.w, c, TRUE, TRUE, {HAM_CURSOR_PREVIOUS}, "ok")
        r3 == btree_cursor_move(r2.w, c, TRUE, TRUE, {HAM_CURSOR_PREVIOUS}, "ok")
    IN <<r1, r2, r3>>

\* the keys of the tree, ascending
KeysPresent(w) == {k \in Keys : PlacesOf(w, k) # {}}

\* C9 as stated: after NEXT at the greatest key returned KEY_NOT_FOUND, the
\* next PREVIOUS returns the greatest key and the PREVIOUS after that its
\* predecessor.
C9_AsStated ==
    \A c \in Cursors :
        (AtLastItem(World, c) /\ Cardinality(KeysPresent(World)) >= 2) =>
            LET r == AfterEnd(World, c)
                greatest == KeyOfCursor(World, c)
            IN /\ r[1].st = HAM_KEY_NOT_FOUND
               /\ r[2].st = HAM_SUCCESS /\ r[2].key = greatest
               /\ r[3].st = HAM_SUCCESS
               /\ r[3].key \in KeysPresent(World) /\ r[3].key < greatest
               /\ \A k \in KeysPresent(World) : k < greatest => k <= r[3].key

\* C9, amended: the NEXT that returns KEY_NOT_FOUND at the last item leaves
\* the cursor on that item, so the next PREVIOUS returns the item before the
\* last one and the PREVIOUS after that the item before that one;
\* KEY_NOT_FOUND where there is no such item.
C9_PreviousAfterEnd ==
    \A c \in Cursors :
        AtLastItem(World, c) =>
            LET r == AfterEnd(World, c)
                items == Items(World)
                n == Len(items)
            IN /\ r[1].st = HAM_KEY_NOT_FOUND
               /\ IF n >= 2
                  THEN r[2].st = HAM_SUCCESS /\ ItemOf(r[2], c) = items[n - 1]
                  ELSE r[2].st = HAM_KEY_NOT_FOUND
               /\ IF n >= 3
                  THEN r[3].st = HAM_SUCCESS /\ ItemOf(r[3], c) = items[n - 2]
                  ELSE r[3].st = HAM_KEY_NOT_FOUND

\* the keys 1, 2, 3 without duplicates, the cursor on key 3: NEXT fails,
\* PREVIOUS returns key 2 and the next PREVIOUS key 1
C9_Witness ==
    \E c \in Cursors :
        /\ AtLastItem(World, c)
        /\ Items(World) = <<<<1, 0>>, <<2, 0>>, <<3, 0>>>>
        /\ AfterEnd(World, c)[1].st = HAM_KEY_NOT_FOUND
        /\ AfterEnd(World, c)[2].key = 2
        /\ AfterEnd(World, c)[3].key = 1

(***************************************************************************)
(* Uncoupling and re-coupling.                                             *)
(***************************************************************************)
\* the calls that couple an uncoupled cursor before they do their work
Recouplers == {"move", "overwrite", "points_to"}

\* cursor c after it is re-coupled by the call named by
Recouple(w, c, by) ==
    IF by = "move" THEN btree_cursor_move(w, c, FALSE, FALSE, {}, "ok").w
    ELSE IF by = "overwrite"
    THEN btree_cursor_overwrite(w, c,
            RidOf(KeyOfCursor(w, c), btree_cursor_get_dupe_id(w, c)), "ok").w
    ELSE btree_cursor_points_to(w, c, <<1, 0>>, "ok").w

\* the world after the rounds of uncouple and re-coupling listed in bys
RECURSIVE Rounds(_, _, _)
Rounds(w, c, bys) ==
    IF bys = <<>> THEN w
    ELSE Rounds(Recouple(btree_cursor_uncouple(w, c, {}, "ok").w, c, Head(bys)),
                c, Tail(bys))

\* cursor c is COUPLED in v where it is COUPLED in w: same key, same page
\* and slot, same duplicate index, on the same tree
SamePlace(w, v, c) ==
    /\ btree_cursor_is_coupled(v, c) /\ ~btree_cursor_is_uncoupled(v, c)
    /\ KeyOfCursor(v, c) = KeyOfCursor(w, c)
    /\ btree_cursor_get_coupled_page(v, c) = btree_cursor_get_coupled_page(w, c)
    /\ btree_cursor_get_coupled_index(v, c) = btree_cursor_get_coupled_index(w, c)
    /\ btree_cursor_get_dupe_id(v, c) = btree_cursor_get_dupe_id(w, c)
    /\ v.pages = w.pages

\* C4: a cursor COUPLED at (key k, duplicate index d) that is uncoupled and
\* re-coupled by a move, an overwrite or a points_to, once or twice in a
\* row, is COUPLED at the slot of k with duplicate index d again.
C4_RecoupleSamePlace ==
    \A c \in Cursors :
        (btree_cursor_is_coupled(World, c) /\ ValidPosition(World, c)) =>
            /\ btree_cursor_is_uncoupled(
                 btree_cursor_uncouple(World, c, {}, "ok").w, c)
            /\ \A b1 \in Recouplers :
                  /\ SamePlace(World, Rounds(World, c, <<b1>>), c)
                  /\ \A b2 \in Recouplers :
                        SamePlace(World, Rounds(World, c, <<b1, b2>>), c)

\* a cursor at the second duplicate of a key at slot 1 of its leaf
C4_Witness ==
    \E c \in Cursors :
        /\ btree_cursor_is_coupled(World, c) /\ ValidPosition(World, c)
        /\ btree_cursor_get_dupe_id(World, c) = 1
        /\ btree_cursor_get_coupled_index(World, c) = 1
        /\ KEY_HAS_DUPLICATES(
             btree_node_get_key(
               page_get_btree_node(World, btree_cursor_get_coupled_page(World, c)),
               1))
        /\ SamePlace(World, Rounds(World, c, <<"move", "overwrite">>), c)

(***************************************************************************)
(* Cloning.                                                                *)
(***************************************************************************)
\* the successful clones <<src, dest, world left>> that can be made in w
Clones(w) ==
    {<<i[1], i[2], CloneResult(w, i[1], i[2], i[3]).w>>
       : i \in {j \in Cursors \X Cursors \X CloneFaults :
                  /\ j[1] # j[2] /\ Vacant(w, j[2])
                  /\ CloneResult(w, j[1], j[2], j[3]).st = HAM_SUCCESS}}

\* what cursor c is and where it is linked in
CursorView(w, c) ==
    [cursor |-> w.cur[c],
     key |-> KeyAt(w, btree_cursor_get_uncoupled_key(w, c)),
     lists |-> {p \in PageIds : InSeq(w.list[p], c)}]

\* no move of cursor c changes cursor d
MoveLeavesAlone(w, c, d) ==
    \A in \in MoveInputs :
        CursorView(btree_cursor_move(w, c, in[2], in[2], in[1], in[3]).w, d)
          = CursorView(w, d)

\* C5: after a successful clone dest is on the key and duplicate index of
\* src: COUPLED to the same page and slot and in that page's list if src is
\* COUPLED, UNCOUPLED with a saved key of its own that equals src's if src
\* is UNCOUPLED; moving one of the two then leaves the other alone.
C5_Clone ==
    \A cl \in Clones(World) :
        LET src == cl[1]
            dest == cl[2]
            v == cl[3]
        IN /\ v.cur[src] = cur[src]
           /\ btree_cursor_get_flags(v, dest) = btree_cursor_get_flags(v, src)
           /\ btree_cursor_get_dupe_id(v, dest) = btree_cursor_get_dupe_id(v, src)
           /\ KeyOfCursor(v, dest) = KeyOfCursor(v, src)
           /\ btree_cursor_is_coupled(v, src) =>
                 /\ btree_cursor_get_coupled_page(v, dest)
                      = btree_cursor_get_coupled_page(v, src)
                 /\ btree_cursor_get_coupled_index(v, dest)
                      = btree_cursor_get_coupled_index(v, src)
                 /\ InSeq(v.list[btree_cursor_get_coupled_page(v, src)], dest)
           /\ btree_cursor_is_uncoupled(v, src) =>
                 /\ btree_cursor_get_uncoupled_key(v, dest) \in KeyPtrs
                 /\ btree_cursor_get_uncoupled_key(v, dest)
                      # btree_cursor_get_uncoupled_key(v, src)
                 /\ KeyAt(v, btree_cursor_get_uncoupled_key(v, dest))
                      = KeyAt(v, btree_cursor_get_uncoupled_key(v, src))
                 /\ ~Listed(v, dest)
           /\ MoveLeavesAlone(v, src, dest)
           /\ MoveLeavesAlone(v, dest, src)

\* a clone of a cursor COUPLED at the second duplicate of a key can be made
\* in a tree that holds every key
C5_Witness ==
    /\ \E cl \in Clones(World) :
          /\ btree_cursor_is_coupled(cl[3], cl[2])
          /\ btree_cursor_get_dupe_id(cl[3], cl[2]) = 1
          /\ InSeq(cl[3].list[cl[3].cur[cl[2]].page], cl[1])
    /\ Cardinality(KeysPresent(World)) = MaxKey

(***************************************************************************)
(* The cursor after a call that fails.                                     *)
(***************************************************************************)
\* the calls on a cursor that return a status
StatusOutcomes(w) ==
    MoveOutcomes(w) \cup FindOutcomes(w) \cup InsertOutcomes(w)
      \cup OverwriteOutcomes(w) \cup EraseOutcomes(w) \cup UncoupleOutcomes(w)
      \cup CloneOutcomes(w)

\* the state of cursor c: NIL / COUPLED / UNCOUPLED, page and slot while
\* COUPLED, saved key while UNCOUPLED, duplicate index, list membership
CursorState(w, c) ==
    [flags |-> btree_cursor_get_flags(w, c),
     place |-> IF btree_cursor_is_coupled(w, c)
               THEN <<btree_cursor_get_coupled_page(w, c),
                      btree_cursor_get_coupled_index(w, c)>>
               ELSE <<0, 0>>,
     key |-> IF btree_cursor_is_uncoupled(w, c)
             THEN KeyAt(w, btree_cursor_get_uncoupled_key(w, c))
             ELSE 0,
     dupe_id |-> btree_cursor_get_dupe_id(w, c),
     lists |-> {p \in PageIds : InSeq(w.list[p], c)}]

\* cursor c is NIL, its saved key released, in no list
NilReleased(w, c) ==
    /\ btree_cursor_get_flags(w, c) = {}
    /\ btree_cursor_get_uncoupled_key(w, c) = 0
    /\ ~Listed(w, c)

\* C6 as stated: a call that returns a non-success status leaves the cursor
\* in the state it had before the call, or NIL with its saved key released.
C6_AsStated ==
    \A o \in StatusOutcomes(World) :
        o.st # HAM_SUCCESS =>
            \/ CursorState(o.w, o.c) = CursorState(World, o.c)
            \/ NilReleased(o.w, o.c)

(***************************************************************************)
(* The first move of a cursor that was uncoupled.                          *)
(***************************************************************************)
\* item a comes before item b
ItemLess(a, b) == a[1] < b[1] \/ (a[1] = b[1] /\ a[2] < b[2])

\* the positions in Items(w) of the items after <<k, d>>
ItemsAfter(w, k, d) ==
    {i \in 1..Len(Items(w)) : ItemLess(<<k, d>>, Items(w)[i])}

\* the positions in Items(w) of the items before <<k, d>>
ItemsBefore(w, k, d) ==
    {i \in 1..Len(Items(w)) : ItemLess(Items(w)[i], <<k, d>>)}

Least(S) == CHOOSE i \in S : \A j \in S : i <= j

Greatest(S) == CHOOSE i \in S : \A j \in S : j <= i

\* cursor c is UNCOUPLED and its saved key is a key of the tree
SavedKeyPresent(w, c) ==
    /\ btree_cursor_is_uncoupled(w, c)
    /\ ~btree_cursor_is_coupled(w, c)
    /\ KeyOfCursor(w, c) \in KeysPresent(w)

\* cursor c is COUPLED, in the list of its page, at the slot that holds key k
CoupledAtKey(w, c, k) ==
    /\ btree_cursor_is_coupled(w, c) /\ ~btree_cursor_is_uncoupled(w, c)
    /\ ValidPosition(w, c)
    /\ KeyOfCursor(w, c) = k
    /\ InSeq(w.list[btree_cursor_get_coupled_page(w, c)], c)

\* C11: move(NEXT) on an UNCOUPLED cursor whose saved key k is still in the
\* tree re-couples it at k and returns the item that follows <<k, duplicate
\* index>> in the tree as it is now, with the cursor COUPLED there;
\* KEY_NOT_FOUND, with the cursor COUPLED at k, when nothing follows.
C11_NextAfterUncouple ==
    \A c \in Cursors :
        SavedKeyPresent(World, c) =>
            LET k == KeyOfCursor(World, c)
                after == ItemsAfter(World, k, btree_cursor_get_dupe_id(World, c))
                r == btree_cursor_move(World, c, TRUE, TRUE, {HAM_CURSOR_NEXT}, "ok")
            IN IF after = {}
               THEN r.st = HAM_KEY_NOT_FOUND /\ CoupledAtKey(r.w, c, k)
               ELSE /\ r.st = HAM_SUCCESS
                    /\ ItemOf(r, c) = Items(World)[Least(after)]
                    /\ CoupledAtKey(r.w, c, r.key)
                    /\ r.w.pages = pages

\* a cursor saved at key 2, which is at slot 1 of the left leaf now, moves to
\* key 3 in the right leaf
C11_Witness ==
    \E c \in Cursors :
        /\ SavedKeyPresent(World, c)
        /\ KeyOfCursor(World, c) = 2
        /\ PlacesOf(World, 2) = {<<1, 1>>}
        /\ btree_cursor_move(World, c, TRUE, TRUE, {HAM_CURSOR_NEXT}, "ok").key = 3
        /\ btree_cursor_get_coupled_page(
             btree_cursor_move(World, c, TRUE, TRUE, {HAM_CURSOR_NEXT}, "ok").w, c) = 2

(***************************************************************************)
(* The coupled page while move reads the key and the record.               *)
(***************************************************************************)
\* the moves <<flags, want, fault>> that read the key and the record
ReadingMoves == {in \in MoveInputs : in[2] /\ in[3] = "ok"}

\* the world in which lines 605-635 read the key and the record: the cursor
\* has been positioned, no other statement precedes the reads
move_at_read(w, c, flags) ==
    move_in_direction(clear_dupe_cache(w, c), c, flags, "ok")

\* C12 as stated: while move reads the key and the record of the coupled
\* slot the coupled page is pinned, so that an eviction which the reads set
\* off leaves the cursor COUPLED; and no page is pinned when move returns.
C12_AsStated ==
    /\ \A c \in Cursors, in \in ReadingMoves :
          LET r == move_at_read(World, c, in[1])
              page == btree_cursor_get_coupled_page(r.w, c)
          IN (r.st = HAM_SUCCESS /\ CoupledAtKey(r.w, c, KeyOfCursor(r.w, c))) =>
                 /\ page_get_refcount(r.w, page) > 0
                 /\ btree_cursor_is_coupled(cache_evict(r.w, page), c)
    /\ \A o \in MoveOutcomes(World) :
          \A p \in PageIds : page_get_refcount(o.w, p) = 0

(***************************************************************************)
(* The duplicate index.                                                    *)
(***************************************************************************)
\* cursor c is COUPLED at a key that has no duplicates
OnKeyWithoutDuplicates(w, c) ==
    /\ btree_cursor_is_coupled(w, c)
    /\ ValidPosition(w, c)
    /\ ~KEY_HAS_DUPLICATES(
          btree_node_get_key(
            page_get_btree_node(w, btree_cursor_get_coupled_page(w, c)),
            btree_cursor_get_coupled_index(w, c)))

\* C13 as stated: in every reachable state a NIL cursor and a cursor COUPLED
\* at a key without duplicates have duplicate index 0.
C13_AsStated ==
    \A c \in Cursors :
        (btree_cursor_is_nil(World, c) \/ OnKeyWithoutDuplicates(World, c))
            => btree_cursor_get_dupe_id(World, c) = 0

(***************************************************************************)
(* Moves among the duplicates of one key.                                  *)
(***************************************************************************)
\* the moves <<flags, want, fault>> with ONLY_DUPLICATES in direction dir
OnlyDuplicatesMoves(dir) ==
    {in \in MoveInputs : dir \in in[1] /\ HAM_ONLY_DUPLICATES \in in[1]}

\* the number of duplicates of the key cursor c is COUPLED at
DupsAtCursor(w, c) ==
    Len(btree_node_get_key(
          page_get_btree_node(w, btree_cursor_get_coupled_page(w, c)),
          btree_cursor_get_coupled_index(w, c)).dups)

\* cursor c is COUPLED at a key of a leaf, in the list of that leaf
Positioned(w, c) == CoupledAtKey(w, c, KeyOfCursor(w, c))

\* C14: NEXT | ONLY_DUPLICATES at the last duplicate of a key and PREVIOUS |
\* ONLY_DUPLICATES at duplicate index 0 return KEY_NOT_FOUND and leave the
\* cursor where it is; and no NEXT or PREVIOUS with ONLY_DUPLICATES, failing
\* or not, takes a COUPLED cursor, or an UNCOUPLED cursor whose saved key is
\* in the tree, to another key.
C14_OnlyDuplicates ==
    \A c \in Cursors :
        /\ Positioned(World, c) =>
              /\ \A in \in OnlyDuplicatesMoves(HAM_CURSOR_NEXT) :
                    LET r == btree_cursor_move(World, c, in[2], in[2], in[1], in[3])
                    IN /\ KeyOfCursor(r.w, c) = KeyOfCursor(World, c)
                       /\ r.st = HAM_SUCCESS => r.key \in {0, KeyOfCursor(World, c)}
                       /\ (in[3] = "ok" /\ btree_cursor_get_dupe_id(World, c)
                                               = DupsAtCursor(World, c) - 1) =>
                              /\ r.st = HAM_KEY_NOT_FOUND
                              /\ CursorState(r.w, c) = CursorState(World, c)
              /\ \A in \in OnlyDuplicatesMoves(HAM_CURSOR_PREVIOUS) :
                    LET r == btree_cursor_move(World, c, in[2], in[2], in[1], in[3])
                    IN /\ KeyOfCursor(r.w, c) = KeyOfCursor(World, c)
                       /\ r.st = HAM_SUCCESS => r.key \in {0, KeyOfCursor(World, c)}
                       /\ (in[3] = "ok" /\ btree_cursor_get_dupe_id(World, c) = 0) =>
                              /\ r.st = HAM_KEY_NOT_FOUND
                              /\ CursorState(r.w, c) = CursorState(World, c)
        /\ SavedKeyPresent(World, c) =>
              \A in \in OnlyDuplicatesMoves(HAM_CURSOR_NEXT)
                          \cup OnlyDuplicatesMoves(HAM_CURSOR_PREVIOUS) :
                  in[3] = "ok" =>
                      KeyOfCursor(
                        btree_cursor_move(World, c, in[2], in[2], in[1], "ok").w, c)
                        = KeyOfCursor(World, c)

\* a cursor at the last duplicate of key 1, which has a key after it, and a
\* cursor at duplicate index 0 of key 2, which has a key before it
C14_Witness ==
    \E c \in Cursors, d \in Cursors :
        /\ Positioned(World, c) /\ Positioned(World, d)
        /\ KeyOfCursor(World, c) = 1 /\ KeyOfCursor(World, d) = 2
        /\ DupsAtCursor(World, c) = 2 /\ btree_cursor_get_dupe_id(World, c) = 1
        /\ DupsAtCursor(World, d) = 2 /\ btree_cursor_get_dupe_id(World, d) = 0
        /\ btree_cursor_move(World, c, TRUE, TRUE,
               {HAM_CURSOR_NEXT, HAM_ONLY_DUPLICATES}, "ok").st = HAM_KEY_NOT_FOUND
        /\ btree_cursor_move(World, d, TRUE, TRUE,
               {HAM_CURSOR_PREVIOUS, HAM_ONLY_DUPLICATES}, "ok").st
             = HAM_KEY_NOT_FOUND

(***************************************************************************)
(* PREVIOUS from the first duplicate of a key.                             *)
(***************************************************************************)
\* the moves <<flags, want, fault>> that are a PREVIOUS without duplicate flags
PlainPreviousMoves == {in \in MoveInputs : in[1] = {HAM_CURSOR_PREVIOUS}}

\* the place <<page, slot>> before the place of cursor c: the slot before
\* it, or the last slot of the left sibling (<<0, 0>>: there is none)
PlaceBefore(w, c) ==
    LET page == btree_cursor_get_coupled_page(w, c)
        slot == btree_cursor_get_coupled_index(w, c)
        left == btree_node_get_left(page_get_btree_node(w, page))
    IN IF slot > 0 THEN <<page, slot - 1>>
       ELSE IF left = 0 THEN <<0, 0>>
       ELSE <<left, btree_node_get_count(page_get_btree_node(w, left)) - 1>>

\* C15: PREVIOUS without duplicate flags on a cursor at duplicate index 0 of
\* a key with duplicates moves the cursor to the slot before it, or to the
\* last slot of the left sibling, at the last duplicate of the key there
\* (index 0 if it has none); KEY_NOT_FOUND if there is no key before.  The
\* duplicate index is never below 0, whether the move fails or not.
C15_PreviousFromFirstDuplicate ==
    \A c \in Cursors :
        (/\ Positioned(World, c)
         /\ DupsAtCursor(World, c) >= 2
         /\ btree_cursor_get_dupe_id(World, c) = 0) =>
            \A in \in PlainPreviousMoves :
                LET r == btree_cursor_move(World, c, in[2], in[2], in[1], in[3])
                    before == PlaceBefore(World, c)
                IN /\ btree_cursor_get_dupe_id(r.w, c) >= 0
                   /\ in[3] = "ok" =>
                         IF before = <<0, 0>>
                         THEN /\ r.st = HAM_KEY_NOT_FOUND
                              /\ CursorState(r.w, c) = CursorState(World, c)
                         ELSE /\ r.st = HAM_SUCCESS
                              /\ Positioned(r.w, c)
                              /\ <<btree_cursor_get_coupled_page(r.w, c),
                                    btree_cursor_get_coupled_index(r.w, c)>> = before
                              /\ KeyOfCursor(r.w, c) < KeyOfCursor(World, c)
                              /\ btree_cursor_get_dupe_id(r.w, c)
                                   = DupsAtCursor(r.w, c) - 1

\* a cursor at duplicate index 0 of key 3, slot 0 of the right leaf, moves
\* to the second duplicate of key 2 in the left leaf
C15_Witness ==
    \E c \in Cursors :
        /\ Positioned(World, c)
        /\ KeyOfCursor(World, c) = 3
        /\ DupsAtCursor(World, c) = 2 /\ btree_cursor_get_dupe_id(World, c) = 0
        /\ LET r == btree_cursor_move(World, c, TRUE, TRUE,
                                      {HAM_CURSOR_PREVIOUS}, "ok")
           IN /\ r.st = HAM_SUCCESS /\ r.key = 2
              /\ btree_cursor_get_coupled_page(r.w, c) = 1
              /\ btree_cursor_get_dupe_id(r.w, c) = 1

(***************************************************************************)
(* FIRST and LAST on an empty tree.                                        *)
(***************************************************************************)
\* the tree has no root page, or its root has no key
EmptyTree(w) ==
    \/ btree_get_rootpage(w) = 0
    \/ btree_node_get_count(page_get_btree_node(w, btree_get_rootpage(w))) = 0

\* the moves <<flags, want, fault>> to the first or to the last item
EndMoves ==
    {in \in MoveInputs :
        HAM_CURSOR_FIRST \in in[1] \/ HAM_CURSOR_LAST \in in[1]}

\* C16: on an empty tree FIRST and LAST return KEY_NOT_FOUND and leave the
\* cursor NIL, its saved key released, in no cursor list, whether it was
\* NIL, COUPLED or UNCOUPLED before.
C16_EndsOfEmptyTree ==
    EmptyTree(World) =>
        \A c \in Cursors, in \in EndMoves :
            LET r == btree_cursor_move(World, c, in[2], in[2], in[1], in[3])
            IN /\ in[3] = "ok" => r.st = HAM_KEY_NOT_FOUND
               /\ r.st # HAM_SUCCESS
               /\ NilReleased(r.w, c)
               /\ btree_cursor_is_nil(r.w, c)

\* a tree whose root leaf has lost its only key, and a cursor that was
\* uncoupled from that key
C16_Witness ==
    /\ EmptyTree(World) /\ btree_get_rootpage(World) # 0
    /\ \E c \in Cursors :
          /\ btree_cursor_is_uncoupled(World, c)
          /\ btree_cursor_move(World, c, TRUE, TRUE, {HAM_CURSOR_FIRST}, "ok").st
               = HAM_KEY_NOT_FOUND
          /\ btree_cursor_move(World, c, TRUE, TRUE, {HAM_CURSOR_LAST}, "ok").st
               = HAM_KEY_NOT_FOUND

(***************************************************************************)
(* btree_cursor_find: the cursor after the lookup.                         *)
(***************************************************************************)
\* cursor c is NIL: no flag, no saved key, in no cursor list, duplicate
\* index 0
NilAtZero(w, c) ==
    /\ NilReleased(w, c)
    /\ btree_cursor_get_dupe_id(w, c) = 0

\* the finds <<cursor, key, fault>> that get as far as the B-tree lookup
LookupInputs == Cursors \X Keys \X {"ok", "find"}

\* the status of the B-tree lookup of key k under fault x
LookupStatus(w, k, x) ==
    IF x = "find" THEN HAM_IO_ERROR
    ELSE IF k \in KeysPresent(w) THEN HAM_SUCCESS ELSE HAM_KEY_NOT_FOUND

\* C17: find(key) returns the status of the B-tree lookup; when the lookup
\* fails the cursor is NIL (no flag, in no cursor list, no saved key,
\* duplicate index 0) whatever it was before; when it succeeds the cursor is
\* COUPLED, listed, at the slot that holds key, with duplicate index 0.
C17_Find ==
    \A i \in LookupInputs :
        LET r == btree_cursor_find(World, i[1], i[2], i[3])
        IN /\ r.st = LookupStatus(World, i[2], i[3])
           /\ r.st # HAM_SUCCESS => NilAtZero(r.w, i[1])
           /\ r.st = HAM_SUCCESS =>
                 /\ CoupledAtKey(r.w, i[1], i[2])
                 /\ btree_cursor_get_dupe_id(r.w, i[1]) = 0

\* a cursor UNCOUPLED at a non-zero duplicate index, a failing find of an
\* absent key and a successful find of a present key
C17_Witness ==
    \E c \in Cursors, k1, k2 \in Keys :
        /\ btree_cursor_is_uncoupled(World, c)
        /\ btree_cursor_get_dupe_id(World, c) > 0
        /\ btree_cursor_find(World, c, k1, "ok").st = HAM_KEY_NOT_FOUND
        /\ btree_cursor_find(World, c, k2, "ok").st = HAM_SUCCESS
        /\ KeyOfCursor(World, c) # k2

(***************************************************************************)
(* btree_cursor_erase.                                                     *)
(***************************************************************************)
\* the erases <<cursor, <<fault, failing cursor>>>> of a database with a
\* backend, on a page whose cursors are all in its list
EraseInputs(w) ==
    {i \in Cursors \X EraseFaults : i[2][1] # "no_backend" /\ CanErase(w, i[1])}

NewRid == RidOf(MaxKey + 1, 0)

\* the pages of w with the record at <<page, slot, duplicate d>> replaced by
\* rid and the page marked dirty
PagesWithRecord(w, page, slot, d, rid) ==
    [w.pages EXCEPT ![page].keys[slot + 1].dups[d + 1] = rid,
                    ![page].dirty = TRUE]

\* the overwrite of the record at cursor c of world w0 gave world w: the
\* cursor is COUPLED at the key and the duplicate index it had, only that
\* record is replaced, the page is dirty, and a read at the cursor yields
\* the new record
Overwritten(w0, w, c, rid) ==
    /\ btree_cursor_is_coupled(w, c) /\ ~btree_cursor_is_uncoupled(w, c)
    /\ ValidPosition(w, c)
    /\ KeyOfCursor(w, c) = KeyOfCursor(w0, c)
    /\ btree_cursor_get_dupe_id(w, c) = btree_cursor_get_dupe_id(w0, c)
    /\ btree_cursor_is_coupled(w0, c) =>
          /\ btree_cursor_get_coupled_page(w, c) = btree_cursor_get_coupled_page(w0, c)
          /\ btree_cursor_get_coupled_index(w, c)
               = btree_cursor_get_coupled_index(w0, c)
          /\ w.list = w0.list
    /\ w.pages = PagesWithRecord(w0, btree_cursor_get_coupled_page(w, c),
                                 btree_cursor_get_coupled_index(w, c),
                                 btree_cursor_get_dupe_id(w, c), rid)
    /\ page_is_dirty(w, btree_cursor_get_coupled_page(w, c))
    /\ w.root = w0.root
    /\ \A c2 \in Cursors \ {c} : w.cur[c2] = w0.cur[c2]
    /\ btree_cursor_move(w, c, TRUE, TRUE, {}, "ok").st = HAM_SUCCESS
    /\ btree_cursor_move(w, c, TRUE, TRUE, {}, "ok").rec = rid

\* C19: overwrite on a NIL cursor returns CURSOR_IS_NIL and changes nothing;
\* a successful overwrite on a COUPLED or UNCOUPLED cursor replaces only the
\* record at the cursor's slot and duplicate index, marks the page dirty and
\* leaves the cursor COUPLED at the same place, where a read yields the new
\* record.
C19_Overwrite ==
    \A c \in Cursors, x \in OverwriteFaults :
        LET r == btree_cursor_overwrite(World, c, NewRid, x)
        IN /\ btree_cursor_is_nil(World, c) =>
                 r.st = HAM_CURSOR_IS_NIL /\ r.w = World
           /\ (~btree_cursor_is_nil(World, c) /\ r.st = HAM_SUCCESS) =>
                 Overwritten(World, r.w, c, NewRid)

\* pages written out, one cursor COUPLED at a non-zero duplicate index and
\* one UNCOUPLED, both with an overwrite that succeeds, on clean pages
C19_Witness ==
    \E c1, c2 \in Cursors :
        /\ btree_cursor_is_coupled(World, c1)
        /\ btree_cursor_get_dupe_id(World, c1) > 0
        /\ ~page_is_dirty(World, btree_cursor_get_coupled_page(World, c1))
        /\ btree_cursor_overwrite(World, c1, NewRid, "ok").st = HAM_SUCCESS
        /\ btree_cursor_is_uncoupled(World, c2)
        /\ \A p \in PageIds : ~page_is_dirty(World, p)
        /\ btree_cursor_overwrite(World, c2, NewRid, "ok").st = HAM_SUCCESS

(***************************************************************************)
(* The plugin registry after a successful add.                             *)
(***************************************************************************)
\* C20 as stated: after an add that returns success the name is registered
\* and get returns a descriptor equal by value to the one passed to that
\* add, also after further add, import and cleanup calls.
C20_AsStated ==
    \A plugin \in Descriptors :
        LET r == PluginManager_add(Registry, plugin)
        IN r.st = UPS_SUCCESS =>
              /\ PluginManager_is_registered(r.reg, plugin.name)
              /\ PluginManager_get(r.reg, plugin.name) = plugin
              /\ PluginManager_get(PluginManager_cleanup(r.reg), plugin.name)
                   = plugin

(***************************************************************************)
(* The descriptors add accepts.                                            *)
(***************************************************************************)
\* version 0, a known type, and the function pointers of the type set
ValidDescriptor(plugin) ==
    /\ plugin.plugin_version = 0
    /\ plugin.type \in {UQI_PLUGIN_PREDICATE, UQI_PLUGIN_AGGREGATE}
    /\ plugin.type = UQI_PLUGIN_PREDICATE => plugin.pred # 0
    /\ plugin.type = UQI_PLUGIN_AGGREGATE =>
          plugin.agg_single # 0 /\ plugin.agg_many # 0

\* C21: add returns PLUGIN_NOT_FOUND and leaves the registry as it is for
\* every descriptor with a version other than 0, an unknown type or a null
\* function pointer its type requires, and success for every other; every
\* descriptor in the registry has version 0, a known type and the function
\* pointers of its type set.
C21_AddValidates ==
    /\ \A plugin \in Descriptors :
          LET r == PluginManager_add(Registry, plugin)
          IN IF ValidDescriptor(plugin) THEN r.st = UPS_SUCCESS
             ELSE r.st = UPS_PLUGIN_NOT_FOUND /\ r.reg = Registry
    /\ \A n \in PluginNames :
          PluginManager_is_registered(Registry, n) =>
              /\ ValidDescriptor(PluginManager_get(Registry, n))
              /\ PluginManager_get(Registry, n).name = n

\* a predicate and an aggregate plugin are registered, a library is open
C21_Witness ==
    /\ PluginManager_is_registered(Registry, "a")
    /\ PluginManager_get(Registry, "a").type = UQI_PLUGIN_PREDICATE
    /\ PluginManager_is_registered(Registry, "b")
    /\ PluginManager_get(Registry, "b").type = UQI_PLUGIN_AGGREGATE
    /\ handles # <<>>
    /\ \E plugin \in Descriptors :
          /\ plugin.type = UQI_PLUGIN_AGGREGATE /\ plugin.agg_many = 0
          /\ PluginManager_add(Registry, plugin).st = UPS_PLUGIN_NOT_FOUND

(***************************************************************************)
(* The first descriptor of a name stays.                                   *)
(***************************************************************************)
\* C22: in every step of every interleaving of add, import and cleanup a
\* name that is registered keeps its descriptor: an add of another valid
\* descriptor with that name does not overwrite it.
C22_FirstInsertionStays ==
    [][\A n \in PluginNames :
          PluginManager_is_registered(Registry, n) => plugins'[n] = plugins[n]]_vars

\* name "a" is registered and an import is about to add another valid
\* descriptor with that name
C22_Witness ==
    /\ PluginManager_is_registered(Registry, "a")
    /\ \E t \in Importers :
          /\ threads[t].pc = "made"
          /\ Loaded(threads[t].dl)
          /\ threads[t].plugin.name = "a"
          /\ ValidDescriptor(threads[t].plugin)
          /\ threads[t].plugin # PluginManager_get(Registry, "a")

(***************************************************************************)
(* The library handle of an import in flight.                              *)
(***************************************************************************)
\* the importer still uses its handle: for dlsym, for the call of
\* plugin_descriptor, for the registration of the descriptor it returned
UsesHandle(t) == threads[t].pc \in {"pushed", "resolved", "made"}

\* C23 as stated: the library of a handle that an import in flight has
\* pushed and still uses is not closed by a cleanup on another thread.
C23_AsStated ==
    \A t \in Importers : UsesHandle(t) => Loaded(threads[t].dl)

(***************************************************************************)
(* set_to_nil and close, once and twice.                                   *)
(***************************************************************************)
\* world w1 is world w0 with cursor c set to NIL: no flag, in no cursor
\* list, the saved key it had given back to the allocator, duplicate index
\* 0, the duplicate cache zeroed
SetToNilDone(w0, w1, c) ==
    /\ NilAtZero(w1, c)
    /\ w1.cur[c].cache = 0
    /\ btree_cursor_is_uncoupled(w0, c) =>
          btree_cursor_get_uncoupled_key(w0, c) \in FreePtrs(w1)

\* C24: from every cursor state one set_to_nil, and one close, leaves the
\* cursor NIL with everything released, and a second call changes nothing.
C24_SetToNilIdempotent ==
    \A c \in Cursors :
        /\ SetToNilDone(World, btree_cursor_set_to_nil(World, c), c)
        /\ btree_cursor_set_to_nil(btree_cursor_set_to_nil(World, c), c)
             = btree_cursor_set_to_nil(World, c)
        /\ SetToNilDone(World, btree_cursor_close(World, c), c)
        /\ btree_cursor_close(btree_cursor_close(World, c), c)
             = btree_cursor_close(World, c)

\* one cursor UNCOUPLED at a non-zero duplicate index, the other COUPLED and
\* in the list of its page
C24_Witness ==
    \E c1, c2 \in Cursors :
        /\ btree_cursor_is_uncoupled(World, c1)
        /\ btree_cursor_get_dupe_id(World, c1) > 0
        /\ btree_cursor_is_coupled(World, c2)
        /\ Listed(World, c2)
        /\ btree_cursor_set_to_nil(World, c1) # World
        /\ btree_cursor_close(World, c2) # World

(***************************************************************************)
(* The assertion "move: cursor is not coupled" (line 599).                 *)
(***************************************************************************)
\* C26 as stated: no move, on any cursor and with any flags, gets past its
\* positioning step with status 0 and reaches the read of the key and the
\* record with a cursor that is not COUPLED, also when the cursor has
\* neither flag and its parent is coupled to a transaction op.
C26_AsStated ==
    \A c \in Cursors, in \in MoveInputs :
        btree_cursor_move(World, c, in[2], in[2], in[1], in[3]).st
            # "ASSERTION_FAILED"

(***************************************************************************)
(* btree_cursor_uncouple, once and twice, and when it fails.               *)
(***************************************************************************)
\* C25: uncouple on an UNCOUPLED or NIL cursor returns success and changes
\* nothing, so a second uncouple after a successful one changes nothing; an
\* uncouple that fails leaves the cursor COUPLED at its page and slot, the
\* cursor lists and everything else as they were.
C25_Uncouple ==
    \A c \in Cursors, x \in UncoupleFaults :
        LET r == btree_cursor_uncouple(World, c, {}, x)
        IN /\ (btree_cursor_is_uncoupled(World, c) \/ btree_cursor_is_nil(World, c))
                 => r = Ret(HAM_SUCCESS, World)
           /\ r.st = HAM_SUCCESS =>
                 \A x2 \in UncoupleFaults :
                     btree_cursor_uncouple(r.w, c, {}, x2) = Ret(HAM_SUCCESS, r.w)
           /\ r.st # HAM_SUCCESS =>
                 /\ btree_cursor_is_coupled(r.w, c)
                 /\ r.w = World

\* a cursor COUPLED and in the list of its page whose uncouple fails, and
\* the other cursor UNCOUPLED
C25_Witness ==
    \E c1, c2 \in Cursors :
        /\ btree_cursor_is_coupled(World, c1)
        /\ Listed(World, c1)
        /\ btree_cursor_uncouple(World, c1, {}, "alloc").st = HAM_OUT_OF_MEMORY
        /\ btree_cursor_uncouple(World, c1, {}, "ok").st = HAM_SUCCESS
        /\ btree_cursor_is_uncoupled(World, c2)

(***************************************************************************)
(* The record a move reads through the duplicate cache.                    *)
(***************************************************************************)
\* the key entry at the coupled position of cursor c
EntryAt(w, c) ==
    btree_node_get_key(page_get_btree_node(w, btree_cursor_get_coupled_page(w, c)),
                       btree_cursor_get_coupled_index(w, c))

\* cursor c is COUPLED at a key with duplicates, at a duplicate index above
\* 0: a read of the record goes through the duplicate cache
ReadsThroughCache(w, c) ==
    /\ btree_cursor_is_coupled(w, c)
    /\ ValidPosition(w, c)
    /\ KEY_HAS_DUPLICATES(EntryAt(w, c))
    /\ btree_cursor_get_dupe_id(w, c) > 0

\* the world as it is, and as it is after any cursor has overwritten the
\* record at its position
AfterAnyOverwrite(w) ==
    {w} \cup {btree_cursor_overwrite(w, c, NewRid, "ok").w : c \in Cursors}

\* the moves <<flags, want, fault>> that read key and record
RecordMoves == {in \in MoveInputs : in[2]}

\* C27: a move that reads the record through the duplicate cache returns the
\* duplicate at the cursor's key and duplicate index as the tree holds it
\* now, whatever the cache held before the move and whichever cursor has
\* overwritten the record since.
C27_CacheIsCurrent ==
    \A w \in AfterAnyOverwrite(World) :
        \A c \in Cursors, in \in RecordMoves :
            LET r == btree_cursor_move(w, c, TRUE, TRUE, in[1], in[3])
            IN (r.st = HAM_SUCCESS /\ ReadsThroughCache(r.w, c)) =>
                  /\ btree_cursor_get_dupe_id(r.w, c) < Len(EntryAt(r.w, c).dups)
                  /\ r.rec = EntryAt(r.w, c).dups[btree_cursor_get_dupe_id(r.w, c) + 1]

\* a cursor with a filled duplicate cache at a duplicate index above 0, on a
\* record that the other cursor overwrites
C27_Witness ==
    \E c1, c2 \in Cursors :
        /\ c1 # c2
        /\ ReadsThroughCache(World, c1)
        /\ World.cur[c1].cache # 0
        /\ btree_cursor_is_coupled(World, c2)
        /\ EntryAt(World, c2) = EntryAt(World, c1)
        /\ btree_cursor_get_dupe_id(World, c2) = btree_cursor_get_dupe_id(World, c1)
        /\ btree_cursor_overwrite(World, c2, NewRid, "ok").st = HAM_SUCCESS
        /\ btree_cursor_move(btree_cursor_overwrite(World, c2, NewRid, "ok").w,
                             c1, TRUE, TRUE, {}, "ok").rec = NewRid

(***************************************************************************)
(* The value of btree_cursor_points_to.                                    *)
(***************************************************************************)
\* C28 as stated: points_to returns a true (non-zero) value exactly when,
\* after an UNCOUPLED cursor was coupled, the cursor is COUPLED and the key
\* entry at its slot is the one asked for; it returns false for a NIL
\* cursor and when the coupling fails.
C28_AsStated ==
    \A c \in Cursors, place \in Places, x \in CoupleFaults :
        LET r == btree_cursor_points_to(World, c, place, x)
        IN r.eq <=>
             /\ r.st = HAM_SUCCESS
             /\ btree_cursor_is_coupled(r.w, c)
             /\ place = <<btree_cursor_get_coupled_page(r.w, c),
                          btree_cursor_get_coupled_index(r.w, c)>>

====
